---- MODULE Spec2Model ----
(***************************************************************************)
(* Model of the EDDN ingestion pipeline of ResupplyPlanner:                *)
(*   src/src/run_listener.py  (process_eddn_message and the two ingestors) *)
(*   src/src/app/crud.py      (store primitives)                           *)
(*   src/src/app/database.py  (get_db: one session per frame)              *)
(* The store has the four tables of src/src/app/models.py.  A session is a *)
(* private copy of the store; commit publishes it, close discards it.      *)
(***************************************************************************)
EXTENDS Integers, Sequences, FiniteSets, TLC

----------------------------------------------------------------------------
(* Bounds of the model *)
MaxTs == 2
Times == 1..MaxTs

(* Program constants *)
(* coordinates are in thousandths of a light year; 999999.999 ly *)
Sentinel == 999999999

COMMODITY_SCHEMA_REF == "https://eddn.edcd.io/schemas/commodity/3"

SUPPORTED_SCHEMAS == {
    "https://eddn.edcd.io/schemas/journal/1",
    "https://eddn.edcd.io/schemas/fssallbodiesfound/1",
    "https://eddn.edcd.io/schemas/navroute/1",
    "https://eddn.edcd.io/schemas/approachsettlement/1",
    "https://eddn.edcd.io/schemas/codexentry/1",
    "https://eddn.edcd.io/schemas/fssbodysignals/1",
    "https://eddn.edcd.io/schemas/fssdiscoveryscan/1",
    "https://eddn.edcd.io/schemas/fsssignaldiscovered/1",
    "https://eddn.edcd.io/schemas/navbeaconscan/1",
    "https://eddn.edcd.io/schemas/scanbarycentre/1",
    "https://eddn.edcd.io/schemas/commodity/3"}

JournalSchema == "https://eddn.edcd.io/schemas/journal/1"
NavRouteSchema == "https://eddn.edcd.io/schemas/navroute/1"

(* A missing name / address / market id (Python None or a falsy value) *)
NoName == ""
NoAddr == 0
NoPos == <<>>

----------------------------------------------------------------------------
(* Generic helpers *)
Put(f, k, v) == [x \in DOMAIN f \cup {k} |-> IF x = k THEN v ELSE f[x]]
Range(s) == {s[i] : i \in 1..Len(s)}
Distinct(s) == \A i, j \in 1..Len(s) : i # j => s[i] # s[j]
Max(S) == CHOOSE m \in S : \A x \in S : x <= m

EmptyDb == [systems |-> <<>>, stations |-> <<>>,
            commodities |-> <<>>, listings |-> <<>>]

----------------------------------------------------------------------------
(* Timestamps: a string "<clock><suffix>" is modelled by its clock reading *)
(* (whole hours) and its suffix: "Z", no offset (a naive string), or an    *)
(* offset +HH:MM / -HH:MM; kind "absent" is a missing key, "empty" the     *)
(* string "".  Instants are minutes since the clock's origin, UTC.         *)
SfxZ == [kind |-> "Z", sign |-> 1, hh |-> 0, mm |-> 0]
SfxNone == [kind |-> "none", sign |-> 1, hh |-> 0, mm |-> 0]
SfxOffset(sg, h, m) == [kind |-> "offset", sign |-> sg, hh |-> h, mm |-> m]

(* the UTC offset, in minutes, of a suffix *)
OffsetOf(s) == s.sign * (s.hh * 60 + s.mm)

(* datetime.fromisoformat(v.replace("Z", "+00:00")): "Z" becomes +00:00 *)
ParseIso(v) ==
  LET s == IF v.sfx.kind = "Z" THEN SfxOffset(1, 0, 0) ELSE v.sfx
  IN [aware |-> s.kind # "none", instant |-> v.clock * 60 - OffsetOf(s)]

EffectiveTsGateway(m) ==
  IF m.header.gw.kind = "iso"
  THEN [kind |-> "gateway"] @@ ParseIso(m.header.gw)
  ELSE IF m.body.ts.kind = "empty"
       THEN [kind |-> "raise", aware |-> FALSE, instant |-> 0]
  ELSE IF m.body.ts.kind # "absent"
       THEN [kind |-> "body"] @@ ParseIso(m.body.ts)
       ELSE [kind |-> "none", aware |-> FALSE, instant |-> 0]

(* run_listener.py 159-171: the effective timestamp of a frame; kind     *)
(* "raise" is the ValueError of datetime.fromisoformat("") on an empty    *)
(* message.timestamp, raised before routing                               *)
EffectiveTs(m) ==
  IF m.body.ts.kind = "empty"
  THEN [kind |-> "raise", aware |-> FALSE, instant |-> 0]
  ELSE IF m.body.ts.kind # "absent"
  THEN [kind |-> "body"] @@ ParseIso(m.body.ts)
  ELSE IF m.header.gw.kind = "iso"
       THEN [kind |-> "gateway"] @@ ParseIso(m.header.gw)
       ELSE [kind |-> "none", aware |-> FALSE, instant |-> 0]

----------------------------------------------------------------------------
(* System ingestor.  A session holds the rows of the store it has loaded *)
(* (identity map, modified in place) and the pending new objects; with    *)
(* autoflush=False a query never sees a pending object.                   *)
InitSession(db) == [rows |-> db.systems, pend |-> <<>>]

(* an update that keeps the stored coordinates when none are given *)
CreateOrUpdateSystemKeepCoords(S, a, name, pos, ts) ==
  LET x == IF pos = NoPos THEN Sentinel ELSE pos[1]
      y == IF pos = NoPos THEN Sentinel ELSE pos[2]
      z == IF pos = NoPos THEN Sentinel ELSE pos[3]
  IN IF a \in DOMAIN S.rows
     THEN [S EXCEPT !.rows[a] =
             IF pos = NoPos
             THEN [@ EXCEPT !.name = IF name # NoName THEN name ELSE @,
                            !.updated_at = ts]
             ELSE [@ EXCEPT !.name = IF name # NoName THEN name ELSE @,
                            !.x = x, !.y = y, !.z = z, !.coords = <<x, y, z>>,
                            !.updated_at = ts]]
     ELSE [S EXCEPT !.pend = Append(@,
             [addr |-> a,
              row |-> [name |-> IF name # NoName THEN name ELSE "Unknown",
                       x |-> x, y |-> y, z |-> z, coords |-> <<x, y, z>>,
                       updated_at |-> ts, requires_permit |-> FALSE]])]

(* crud.create_or_update_system *)
CreateOrUpdateSystem(S, a, name, pos, ts) ==
  LET x == IF pos = NoPos THEN Sentinel ELSE pos[1]
      y == IF pos = NoPos THEN Sentinel ELSE pos[2]
      z == IF pos = NoPos THEN Sentinel ELSE pos[3]
  IN IF a \in DOMAIN S.rows
     THEN [S EXCEPT !.rows[a] =
             [@ EXCEPT !.name = IF name # NoName THEN name ELSE @,
                       !.x = x, !.y = y, !.z = z, !.coords = <<x, y, z>>,
                       !.updated_at = ts]]
     ELSE [S EXCEPT !.pend = Append(@,
             [addr |-> a,
              row |-> [name |-> IF name # NoName THEN name ELSE "Unknown",
                       x |-> x, y |-> y, z |-> z, coords |-> <<x, y, z>>,
                       updated_at |-> ts, requires_permit |-> FALSE]])]

(* x, y, z = coords if coords and len(coords) == 3 else (None, None, None) *)
StarPosXYZ(p) == IF p # <<>> /\ Len(p) = 3 THEN p ELSE NoPos

ParseSystemItemGt(S, item, ts) ==
  IF item.addr = NoAddr THEN [s |-> S, ok |-> FALSE]
  ELSE IF item.addr \in DOMAIN S.rows /\ S.rows[item.addr].updated_at > ts
       THEN [s |-> S, ok |-> FALSE]
       ELSE [s |-> CreateOrUpdateSystem(S, item.addr, item.name, StarPosXYZ(item.pos), ts),
             ok |-> TRUE]

(* run_listener.parse_and_update_system for one body without Route *)
ParseSystemItem(S, item, ts) ==
  IF item.addr = NoAddr THEN [s |-> S, ok |-> FALSE]
  ELSE IF item.addr \in DOMAIN S.rows /\ S.rows[item.addr].updated_at >= ts
       THEN [s |-> S, ok |-> FALSE]
       ELSE [s |-> CreateOrUpdateSystem(S, item.addr, item.name, StarPosXYZ(item.pos), ts),
             ok |-> TRUE]

RECURSIVE RouteLoop(_, _, _, _)
RouteLoop(S, items, ts, cnt) ==
  IF items = <<>> THEN [s |-> S, ok |-> cnt > 0]
  ELSE LET r == ParseSystemItem(S, Head(items), ts)
       IN RouteLoop(r.s, Tail(items), ts, IF r.ok THEN cnt + 1 ELSE cnt)

ParseAndUpdateSystemFirst(S, body, ts) ==
  IF body.route
  THEN IF body.items = <<>> THEN [s |-> S, ok |-> FALSE]
       ELSE ParseSystemItem(S, Head(body.items), ts)
  ELSE ParseSystemItem(S, [addr |-> body.addr, name |-> body.name,
                           pos |-> body.pos], ts)

(* run_listener.parse_and_update_system *)
ParseAndUpdateSystem(S, body, ts) ==
  IF body.route THEN RouteLoop(S, body.items, ts, 0)
  ELSE ParseSystemItem(S, [addr |-> body.addr, name |-> body.name,
                           pos |-> body.pos], ts)

(* db.commit() of a system session: the flush inserts the pending rows; *)
(* two pending rows with one primary key violate the key and raise.     *)
PendAddrs(S) == [i \in 1..Len(S.pend) |-> S.pend[i].addr]
SystemCommitFails(S) == ~Distinct(PendAddrs(S))
SystemCommit(db, S) ==
  [db EXCEPT !.systems =
     [a \in DOMAIN S.rows \cup Range(PendAddrs(S)) |->
        IF a \in DOMAIN S.rows THEN S.rows[a]
        ELSE (CHOOSE p \in Range(S.pend) : p.addr = a).row]]

----------------------------------------------------------------------------
(* crud.bulk_upsert_systems: one INSERT .. ON CONFLICT (system_address)  *)
(* DO UPDATE SET <BulkSetColumns> WHERE systems.updated_at <             *)
(* excluded.updated_at; rowcount counts inserted and updated rows.       *)
BulkSetColumns == {"name", "x", "y", "z", "coords", "updated_at"}

RecAddrs(records) == [i \in 1..Len(records) |-> records[i].system_address]

RecordOf(records, a) == CHOOSE r \in Range(records) : r.system_address = a

NewRow(r) == [name |-> r.name, x |-> r.x, y |-> r.y, z |-> r.z,
              coords |-> r.coords, updated_at |-> r.updated_at,
              requires_permit |-> FALSE]

RECURSIVE BulkRowsLe(_, _)
BulkRowsLe(acc, records) ==
  IF records = <<>> \/ acc.raised THEN acc
  ELSE LET r == Head(records)
           a == r.system_address
       IN BulkRowsLe(
            IF a \in acc.affected
            THEN [acc EXCEPT !.raised = TRUE]
            ELSE IF a \notin DOMAIN acc.systems
            THEN [acc EXCEPT !.systems = Put(acc.systems, a, NewRow(r)),
                             !.count = @ + 1, !.affected = @ \cup {a}]
            ELSE IF acc.systems[a].updated_at <= r.updated_at
            THEN [acc EXCEPT
                    !.systems = Put(acc.systems, a,
                       [c \in DOMAIN acc.systems[a] |->
                          IF c \in BulkSetColumns THEN r[c] ELSE acc.systems[a][c]]),
                    !.count = @ + 1, !.affected = @ \cup {a}, !.upd = TRUE]
            ELSE acc,
            Tail(records))

(* the proposed rows in order: a row conflicting with one this statement *)
(* already inserted or updated fails the whole statement (ON CONFLICT DO  *)
(* UPDATE cannot affect a row a second time); a row whose WHERE is false  *)
(* leaves its row untouched                                               *)
RECURSIVE BulkRows(_, _)
BulkRows(acc, records) ==
  IF records = <<>> \/ acc.raised THEN acc
  ELSE LET r == Head(records)
           a == r.system_address
       IN BulkRows(
            IF a \in acc.affected
            THEN [acc EXCEPT !.raised = TRUE]
            ELSE IF a \notin DOMAIN acc.systems
            THEN [acc EXCEPT !.systems = Put(acc.systems, a, NewRow(r)),
                             !.count = @ + 1, !.affected = @ \cup {a}]
            ELSE IF acc.systems[a].updated_at < r.updated_at
            THEN [acc EXCEPT
                    !.systems = Put(acc.systems, a,
                       [c \in DOMAIN acc.systems[a] |->
                          IF c \in BulkSetColumns THEN r[c] ELSE acc.systems[a][c]]),
                    !.count = @ + 1, !.affected = @ \cup {a}, !.upd = TRUE]
            ELSE acc,
            Tail(records))

BulkUpsertSystemsLe(systems, records) ==
  IF records = <<>> THEN [systems |-> systems, count |-> 0, raised |-> FALSE, written |-> {}]
  ELSE LET r == BulkRowsLe([systems |-> systems, count |-> 0, affected |-> {},
                          raised |-> FALSE, upd |-> FALSE], records)
       IN IF r.raised
          THEN [systems |-> systems, count |-> 0, raised |-> TRUE, written |-> {}]
          ELSE [systems |-> r.systems, count |-> r.count, raised |-> FALSE,
                written |-> IF r.upd THEN BulkSetColumns ELSE {}]

BulkUpsertSystems(systems, records) ==
  IF records = <<>> THEN [systems |-> systems, count |-> 0, raised |-> FALSE, written |-> {}]
  ELSE LET r == BulkRows([systems |-> systems, count |-> 0, affected |-> {},
                          raised |-> FALSE, upd |-> FALSE], records)
       IN IF r.raised
          THEN [systems |-> systems, count |-> 0, raised |-> TRUE, written |-> {}]
          ELSE [systems |-> r.systems, count |-> r.count, raised |-> FALSE,
                written |-> IF r.upd THEN BulkSetColumns ELSE {}]

----------------------------------------------------------------------------
(* Commodity ingestor.  The session works on a copy of the store; the    *)
(* flush in create_or_update_station_commodities writes into it too.     *)

(* crud.get_system_by_name(...).first(): names are not unique and the    *)
(* query has no ORDER BY, so any system of that name may come back.       *)
ParentChoices(db, sysName) ==
  LET hits == {a \in DOMAIN db.systems : db.systems[a].name = sysName}
  IN IF hits = {} THEN {NoAddr} ELSE hits

GetOrCreateStationKeepProhibited(db, m, name, p, prohibited, ts) ==
  IF m \in DOMAIN db.stations
  THEN [db EXCEPT !.stations[m] =
          [@ EXCEPT !.name = name, !.updated_at = ts,
                    !.system_address = IF @ = NoAddr /\ p # NoAddr THEN p ELSE @]]
  ELSE [db EXCEPT !.stations = Put(@, m,
          [name |-> name, system_address |-> p, prohibited |-> prohibited,
           updated_at |-> ts])]

GetOrCreateStationNoLink(db, m, name, p, prohibited, ts) ==
  IF m \in DOMAIN db.stations
  THEN [db EXCEPT !.stations[m] =
          [@ EXCEPT !.name = name, !.prohibited = prohibited, !.updated_at = ts]]
  ELSE [db EXCEPT !.stations = Put(@, m,
          [name |-> name, system_address |-> p, prohibited |-> prohibited,
           updated_at |-> ts])]

(* crud.get_or_create_station with parent system address p (NoAddr = NULL) *)
GetOrCreateStation(db, m, name, p, prohibited, ts) ==
  IF m \in DOMAIN db.stations
  THEN [db EXCEPT !.stations[m] =
          [@ EXCEPT !.name = name, !.prohibited = prohibited,
                    !.updated_at = ts,
                    !.system_address = IF @ = NoAddr /\ p # NoAddr THEN p ELSE @]]
  ELSE [db EXCEPT !.stations = Put(@, m,
          [name |-> name, system_address |-> p, prohibited |-> prohibited,
           updated_at |-> ts])]

(* get_or_create_commodity for every named entry, in order; new rows get *)
(* the next ids when the flush inserts them in the order they were added.*)
RECURSIVE EnsureCommoditiesAppend(_, _)
EnsureCommoditiesAppend(cs, coms) ==
  IF coms = <<>> THEN cs
  ELSE LET n == Head(coms).name
       IN EnsureCommoditiesAppend(IF n = NoName THEN cs ELSE Append(cs, n), Tail(coms))

RECURSIVE EnsureCommodities(_, _)
EnsureCommodities(cs, coms) ==
  IF coms = <<>> THEN cs
  ELSE LET n == Head(coms).name
       IN EnsureCommodities(IF n = NoName \/ n \in Range(cs) THEN cs
                            ELSE Append(cs, n), Tail(coms))

CommodityId(cs, n) == CHOOSE i \in 1..Len(cs) : cs[i] = n

(* int(data.get(field) or 0); a field is <<>> when missing, null or "", *)
(* <<v>> for an integer v                                                *)
IntOr0(v) == IF v = <<>> THEN 0 ELSE v[1]

(* the row create_or_update_station_commodities builds for one entry *)
ListingRow(d, ts) ==
  [buy_price |-> IntOr0(d.buyPrice), sell_price |-> IntOr0(d.sellPrice),
   demand |-> IntOr0(d.demand), demand_bracket |-> IntOr0(d.demandBracket),
   stock |-> IntOr0(d.stock), stock_bracket |-> IntOr0(d.stockBracket),
   mean_price |-> IntOr0(d.meanPrice), updated_at |-> ts]

CreateOrUpdateStationCommoditiesNothing(db, m, coms, ts) ==
  IF coms = <<>> THEN [s |-> db, raised |-> FALSE]
  ELSE
  LET cs == EnsureCommodities(db.commodities, coms)
      d1 == [db EXCEPT !.commodities = cs]
      named == SelectSeq(coms, LAMBDA d : d.name # NoName)
      rows == [i \in 1..Len(named) |->
                 [key |-> <<m, CommodityId(cs, named[i].name)>>,
                  row |-> ListingRow(named[i], ts)]]
      keys == [i \in 1..Len(rows) |-> rows[i].key]
  IN IF rows = <<>> THEN [s |-> d1, raised |-> FALSE]
     ELSE IF ~Distinct(keys) THEN [s |-> d1, raised |-> TRUE]
     ELSE [s |-> [d1 EXCEPT !.listings =
                    [k \in DOMAIN @ \cup Range(keys) |->
                       IF k \in DOMAIN @ THEN @[k]
                       ELSE (CHOOSE r \in Range(rows) : r.key = k).row]],
           raised |-> FALSE]

(* crud.create_or_update_station_commodities *)
CreateOrUpdateStationCommodities(db, m, coms, ts) ==
  IF coms = <<>> THEN [s |-> db, raised |-> FALSE]
  ELSE
  LET cs == EnsureCommodities(db.commodities, coms)
      d1 == [db EXCEPT !.commodities = cs]
      named == SelectSeq(coms, LAMBDA d : d.name # NoName)
      rows == [i \in 1..Len(named) |->
                 [key |-> <<m, CommodityId(cs, named[i].name)>>,
                  row |-> ListingRow(named[i], ts)]]
      keys == [i \in 1..Len(rows) |-> rows[i].key]
  IN IF rows = <<>> THEN [s |-> d1, raised |-> FALSE]
     (* ON CONFLICT DO UPDATE cannot affect one row twice in a statement *)
     ELSE IF ~Distinct(keys) THEN [s |-> d1, raised |-> TRUE]
     ELSE [s |-> [d1 EXCEPT !.listings =
                    [k \in DOMAIN @ \cup Range(keys) |->
                       IF k \in Range(keys)
                       THEN (CHOOSE r \in Range(rows) : r.key = k).row
                       ELSE @[k]]],
           raised |-> FALSE]

ParseAndUpdateStationCommoditiesGt(db, body, ts) ==
  IF body.market = NoAddr THEN {[s |-> db, ok |-> FALSE, raised |-> FALSE]}
  ELSE IF body.market \in DOMAIN db.stations
          /\ db.stations[body.market].updated_at > ts
  THEN {[s |-> db, ok |-> FALSE, raised |-> FALSE]}
  ELSE IF body.stationName = NoName \/ body.systemName = NoName
  THEN {[s |-> db, ok |-> FALSE, raised |-> FALSE]}
  ELSE {LET d1 == GetOrCreateStation(db, body.market, body.stationName, p,
                                     body.prohibited, ts)
            r == CreateOrUpdateStationCommodities(d1, body.market,
                                                  body.coms, ts)
        IN [s |-> r.s, ok |-> ~r.raised, raised |-> r.raised]
        : p \in ParentChoices(db, body.systemName)}

ParseAndUpdateStationCommoditiesNoSystemName(db, body, ts) ==
  IF body.market = NoAddr THEN {[s |-> db, ok |-> FALSE, raised |-> FALSE]}
  ELSE IF body.market \in DOMAIN db.stations
          /\ db.stations[body.market].updated_at >= ts
  THEN {[s |-> db, ok |-> FALSE, raised |-> FALSE]}
  ELSE IF body.stationName = NoName
  THEN {[s |-> db, ok |-> FALSE, raised |-> FALSE]}
  ELSE {LET d1 == GetOrCreateStation(db, body.market, body.stationName, p,
                                     body.prohibited, ts)
            r == CreateOrUpdateStationCommodities(d1, body.market,
                                                  body.coms, ts)
        IN [s |-> r.s, ok |-> ~r.raised, raised |-> r.raised]
        : p \in ParentChoices(db, body.systemName)}

(* run_listener.parse_and_update_station_commodities: the set of outcomes *)
ParseAndUpdateStationCommodities(db, body, ts) ==
  IF body.market = NoAddr THEN {[s |-> db, ok |-> FALSE, raised |-> FALSE]}
  ELSE IF body.market \in DOMAIN db.stations
          /\ db.stations[body.market].updated_at >= ts
  THEN {[s |-> db, ok |-> FALSE, raised |-> FALSE]}
  ELSE IF body.stationName = NoName \/ body.systemName = NoName
  THEN {[s |-> db, ok |-> FALSE, raised |-> FALSE]}
  ELSE {LET d1 == GetOrCreateStation(db, body.market, body.stationName, p,
                                     body.prohibited, ts)
            r == CreateOrUpdateStationCommodities(d1, body.market,
                                                  body.coms, ts)
        IN [s |-> r.s, ok |-> ~r.raised, raised |-> r.raised]
        : p \in ParentChoices(db, body.systemName)}

----------------------------------------------------------------------------
(* run_listener.process_eddn_message: the set of outcomes of one frame.   *)
(* get_db closes the session on every exit; close rolls back whatever was *)
(* not committed, so only an accepted frame changes the store.            *)
Outcome(db, acc, ign, raised, commits, handler, eff) ==
  [db |-> db, acc |-> acc, ign |-> ign, raised |-> raised,
   commits |-> commits, handler |-> handler, eff |-> eff]

FinishCommodityKeep(db, o, eff) ==
  [hret |-> o.ok] @@
  IF o.raised THEN Outcome(o.s, FALSE, FALSE, TRUE, 0, "commodity", eff)
  ELSE IF o.ok THEN Outcome(o.s, TRUE, FALSE, FALSE, 1, "commodity", eff)
  ELSE Outcome(db, FALSE, TRUE, FALSE, 0, "commodity", eff)

FinishCommodity(db, o, eff) ==
  [hret |-> o.ok] @@
  IF o.raised THEN Outcome(db, FALSE, FALSE, TRUE, 0, "commodity", eff)
  ELSE IF o.ok THEN Outcome(o.s, TRUE, FALSE, FALSE, 1, "commodity", eff)
  ELSE Outcome(db, FALSE, TRUE, FALSE, 0, "commodity", eff)

FinishSystem(db, r, eff) ==
  [hret |-> r.ok] @@
  IF ~r.ok THEN Outcome(db, FALSE, TRUE, FALSE, 0, "system", eff)
  ELSE IF SystemCommitFails(r.s)
       THEN Outcome(db, FALSE, FALSE, TRUE, 0, "system", eff)
       ELSE Outcome(SystemCommit(db, r.s), TRUE, FALSE, FALSE, 1, "system", eff)

(* a naive (offset-less) timestamp reaches a freshness comparison with a *)
(* stored, timezone-aware updated_at: run_listener.py 77 for a system    *)
(* item whose row exists, 110 for a station that exists.  Python raises  *)
(* TypeError there.                                                       *)
NaiveCompare(db, m, handler) ==
  IF handler = "commodity"
  THEN m.body.market # NoAddr /\ m.body.market \in DOMAIN db.stations
  ELSE IF m.body.route
  THEN \E i \in 1..Len(m.body.items) :
          m.body.items[i].addr # NoAddr /\ m.body.items[i].addr \in DOMAIN db.systems
  ELSE m.body.addr # NoAddr /\ m.body.addr \in DOMAIN db.systems

(* the TypeError of a naive timestamp, raised inside the handler *)
NaiveRaise(db, handler, eff) ==
  {[hret |-> FALSE] @@ Outcome(db, FALSE, FALSE, TRUE, 0, handler, eff)}

ProcessEddnMessageAnySchema(db, m) ==
  LET eff == EffectiveTs(m)
  IN IF eff.kind = "raise"
     THEN {[hret |-> FALSE] @@ Outcome(db, FALSE, FALSE, TRUE, 0, "none", eff)}
     ELSE IF eff.kind = "none"
     THEN {[hret |-> FALSE] @@ Outcome(db, FALSE, TRUE, FALSE, 0, "none", eff)}
     ELSE IF m.schema \in SUPPORTED_SCHEMAS
     THEN IF m.schema = COMMODITY_SCHEMA_REF
          THEN IF ~eff.aware /\ NaiveCompare(db, m, "commodity")
               THEN NaiveRaise(db, "commodity", eff)
               ELSE {FinishCommodity(db, o, eff) :
                       o \in ParseAndUpdateStationCommodities(db, m.body, eff.instant)}
          ELSE IF ~eff.aware /\ NaiveCompare(db, m, "system")
               THEN NaiveRaise(db, "system", eff)
               ELSE {FinishSystem(db,
                       ParseAndUpdateSystem(InitSession(db), m.body, eff.instant), eff)}
     ELSE IF ~eff.aware /\ NaiveCompare(db, m, "system")
     THEN NaiveRaise(db, "system", eff)
     ELSE {FinishSystem(db,
             ParseAndUpdateSystem(InitSession(db), m.body, eff.instant), eff)}

ProcessEddnMessage(db, m) ==
  LET eff == EffectiveTs(m)
  IN IF eff.kind = "raise"
     THEN {[hret |-> FALSE] @@ Outcome(db, FALSE, FALSE, TRUE, 0, "none", eff)}
     ELSE IF eff.kind = "none"
     THEN {[hret |-> FALSE] @@ Outcome(db, FALSE, TRUE, FALSE, 0, "none", eff)}
     ELSE IF m.schema \in SUPPORTED_SCHEMAS
     THEN IF m.schema = COMMODITY_SCHEMA_REF
          THEN IF ~eff.aware /\ NaiveCompare(db, m, "commodity")
               THEN NaiveRaise(db, "commodity", eff)
               ELSE {FinishCommodity(db, o, eff) :
                       o \in ParseAndUpdateStationCommodities(db, m.body, eff.instant)}
          ELSE IF ~eff.aware /\ NaiveCompare(db, m, "system")
               THEN NaiveRaise(db, "system", eff)
               ELSE {FinishSystem(db,
                       ParseAndUpdateSystem(InitSession(db), m.body, eff.instant), eff)}
     ELSE {[hret |-> FALSE] @@ Outcome(db, FALSE, TRUE, FALSE, 0, "none", eff)}

----------------------------------------------------------------------------
(* Frames.  Every body carries all the keys the two ingestors read; the   *)
(* unused ones hold their "missing" value.                                *)
TsIso(c) == [kind |-> "iso", clock |-> c, sfx |-> SfxZ]
TsAbsent == [kind |-> "absent", clock |-> 0, sfx |-> SfxNone]

Item(a, n, p) == [addr |-> a, name |-> n, pos |-> p]
Com(n, bp) == [name |-> n, buyPrice |-> bp, sellPrice |-> <<>>, demand |-> <<>>,
               demandBracket |-> <<>>, stock |-> <<>>, stockBracket |-> <<>>,
               meanPrice |-> <<>>]

Body(ts, route, a, n, p, items, mk, sn, syn, pr, coms) ==
  [ts |-> ts, route |-> route, addr |-> a, name |-> n, pos |-> p,
   items |-> items, market |-> mk, stationName |-> sn, systemName |-> syn,
   prohibited |-> pr, coms |-> coms]

Msg(schema, gw, body) == [schema |-> schema, header |-> [gw |-> gw], body |-> body]

SysMsg(t, a, n, p) ==
  Msg(JournalSchema, TsAbsent,
      Body(TsIso(t), FALSE, a, n, p, <<>>, NoAddr, NoName, NoName, <<>>, <<>>))
RouteMsg(t, items) ==
  Msg(NavRouteSchema, TsAbsent,
      Body(TsIso(t), TRUE, NoAddr, NoName, NoPos, items, NoAddr, NoName,
           NoName, <<>>, <<>>))
ComMsg(t, mk, sn, syn, pr, coms) ==
  Msg(COMMODITY_SCHEMA_REF, TsAbsent,
      Body(TsIso(t), FALSE, NoAddr, NoName, NoPos, <<>>, mk, sn, syn, pr, coms))

NoMsg == Msg("", TsAbsent,
             Body(TsAbsent, FALSE, NoAddr, NoName, NoPos, <<>>, NoAddr, NoName,
                  NoName, <<>>, <<>>))

(* Bounded universe of frames *)
P1 == <<1000, 2000, 3000>>
P2 == <<0, 0, 0>>
Market == 5

MainSysMsgs ==
  {SysMsg(t, 1, r[1], r[2]) : t \in Times,
     r \in {<<"Sol", P1>>, <<NoName, NoPos>>}}
MainRouteMsgs ==
  {RouteMsg(t, its) : t \in Times,
     its \in {<<Item(1, "Sol", P2), Item(2, "Ra", P1)>>,
              <<Item(NoAddr, NoName, NoPos), Item(2, NoName, P2),
                Item(2, NoName, P2)>>}}
MainComMsgs ==
  {ComMsg(t, Market, "Abe", "Sol", <<"Slaves">>, cs) : t \in Times,
     cs \in {<<>>, <<Com("Gold", <<7>>)>>,
             <<Com("Gold", <<>>), Com("Gold", <<7>>)>>,
             <<Com("Tea", <<3>>), Com(NoName, <<7>>)>>}}
  \cup {ComMsg(1, NoAddr, "Abe", "Sol", <<>>, <<Com("Gold", <<7>>)>>),
        ComMsg(2, Market, NoName, "Sol", <<>>, <<Com("Tea", <<>>)>>)}
MainMsgs == MainSysMsgs \cup MainRouteMsgs \cup MainComMsgs

----------------------------------------------------------------------------
(* The listener, one frame at a time (run_listener.main, strictly serial). *)
(* best: the first delivered record with the greatest timestamp for      *)
(* system 1 among the accepted frames (history for the freshness claim). *)
VARIABLES db, lastMsg, out, step, best
(* two copies of the store fed one batch of frames in two orders *)
VARIABLES batch, db1, db2, ord1, ord2
(* the last list handed to bulk_upsert_systems and what it returned *)
VARIABLES recs, bres
(* the input and result of one call of a single operation *)
VARIABLES unit
vars == <<db, lastMsg, out, step, best, batch, db1, db2, ord1, ord2, recs, bres, unit>>

NoUnit == [phase |-> "none"]

NoBres == [count |-> 0, raised |-> FALSE, written |-> {}]

NoBest == [has |-> FALSE, ts |-> 0, name |-> NoName, pos |-> NoPos]

Strip(o) == [hret |-> o.hret, acc |-> o.acc, ign |-> o.ign, raised |-> o.raised,
             commits |-> o.commits, handler |-> o.handler, eff |-> o.eff]

(* the frame gave a station without a parent system its system_address *)
LinksStation(d0, d1) ==
  \E m \in DOMAIN d0.stations :
     d0.stations[m].system_address = NoAddr /\ d1.stations[m].system_address # NoAddr

NoOut == [linked |-> FALSE, hret |-> FALSE, acc |-> FALSE, ign |-> FALSE, raised |-> FALSE, commits |-> 0,
          handler |-> "none", eff |-> [kind |-> "none", aware |-> FALSE, instant |-> 0]]

RECURSIVE Track(_, _, _)
Track(b, items, ts) ==
  IF items = <<>> THEN b
  ELSE Track(IF Head(items).addr = 1 /\ (~b.has \/ ts > b.ts)
             THEN [has |-> TRUE, ts |-> ts, name |-> Head(items).name,
                   pos |-> Head(items).pos]
             ELSE b, Tail(items), ts)

ItemsOf(body) == IF body.route THEN body.items
                 ELSE <<Item(body.addr, body.name, body.pos)>>

NextBest(m, o) ==
  IF o.acc /\ o.handler = "system" THEN Track(best, ItemsOf(m.body), o.eff.instant)
  ELSE best

ListenerInit ==
  /\ db = EmptyDb
  /\ lastMsg = NoMsg
  /\ out = NoOut
  /\ step = "init"
  /\ best = NoBest

Init ==
  /\ ListenerInit
  /\ recs = <<>> /\ bres = NoBres /\ unit = NoUnit
  /\ batch = <<>> /\ db1 = EmptyDb /\ db2 = EmptyDb
  /\ ord1 = <<>> /\ ord2 = <<>>

Handle(m, kind) ==
  \E o \in ProcessEddnMessage(db, m) :
     /\ db' = o.db
     /\ out' = [linked |-> LinksStation(db, o.db)] @@ Strip(o)
     /\ lastMsg' = m
     /\ step' = kind
     /\ best' = NextBest(m, o)
     /\ UNCHANGED <<batch, db1, db2, ord1, ord2, recs, bres, unit>>

Deliver == \E m \in MainMsgs : Handle(m, "deliver")

(* the relay delivers the previous frame once more *)
Replay == step # "init" /\ Handle(lastMsg, "replay")

Next == Deliver \/ Replay
Spec == Init /\ [][Next]_vars

----------------------------------------------------------------------------
(* The router: frames of every shape the relay sends, routed one at a time *)
OtherSchema == "https://eddn.edcd.io/schemas/outfitting/2"
RouterSchemas == {JournalSchema, NavRouteSchema, COMMODITY_SCHEMA_REF, OtherSchema, ""}
BodyTimes ==
  {TsAbsent, [kind |-> "empty", clock |-> 0, sfx |-> SfxNone],
   [kind |-> "iso", clock |-> 1, sfx |-> SfxZ],
   [kind |-> "iso", clock |-> 2, sfx |-> SfxOffset(1, 1, 0)],
   [kind |-> "iso", clock |-> 2, sfx |-> SfxOffset(1, 0, 0)],
   [kind |-> "iso", clock |-> 3, sfx |-> SfxOffset(-1, 2, 0)],
   [kind |-> "iso", clock |-> 2, sfx |-> SfxNone]}
GatewayTimes ==
  {TsAbsent, [kind |-> "empty", clock |-> 0, sfx |-> SfxNone],
   [kind |-> "iso", clock |-> 2, sfx |-> SfxZ]}
RouterBodies ==
  {SysMsg(1, 1, "Sol", P1).body,
   RouteMsg(1, <<Item(2, "Ra", P2)>>).body,
   ComMsg(1, Market, "Abe", "Sol", <<>>, <<Com("Gold", <<7>>)>>).body}
RouterMsgs ==
  {Msg(sc, gw, [b EXCEPT !.ts = bt]) :
     sc \in RouterSchemas, gw \in GatewayTimes, bt \in BodyTimes, b \in RouterBodies}

Route == \E m \in RouterMsgs : Handle(m, "route")

RouterSpec == Init /\ [][Route]_vars

----------------------------------------------------------------------------
(* The bulk loader: scripts/manual_systems_update.py hands batches of     *)
(* records to bulk_upsert_systems and commits each batch; a failing batch *)
(* is rolled back.                                                        *)
MaxRecs == 2
BulkRecord(a, t, n, p) ==
  [system_address |-> a, name |-> n, x |-> p[1], y |-> p[2], z |-> p[3],
   coords |-> p, updated_at |-> t]
BulkRecords ==
  {BulkRecord(a, t, IF t % 2 = 0 THEN "Sol" ELSE "Old", IF t % 2 = 0 THEN P1 ELSE P2) :
     a \in {1, 2}, t \in Times}
RecLists == UNION {[1..k -> BulkRecords] : k \in 0..MaxRecs}

BulkUpsert ==
  \E rl \in RecLists :
     LET r == BulkUpsertSystems(db.systems, rl)
     IN /\ db' = [db EXCEPT !.systems = r.systems]
        /\ recs' = rl
        /\ bres' = [count |-> r.count, raised |-> r.raised, written |-> r.written]
        /\ step' = "bulk"
        /\ UNCHANGED <<lastMsg, out, best, batch, db1, db2, ord1, ord2, unit>>

BulkSpec == Init /\ [][BulkUpsert]_vars

----------------------------------------------------------------------------
(* Reordering: one batch of frames with distinct timestamps per key,     *)
(* processed serially into db1 in its listed order and into db2 in any   *)
(* order.                                                                *)
PoolMsgs ==
  {SysMsg(t, 1, r[1], r[2]) : t \in Times, r \in {<<"Sol", P1>>, <<NoName, NoPos>>}}
  \cup {RouteMsg(t, <<Item(1, "Sol", P2), Item(2, "Ra", P1)>>) : t \in Times}
  \cup {ComMsg(t, Market, "Abe", "Sol", r[1], r[2]) : t \in Times,
        r \in {<<<<"Slaves">>, <<Com("Gold", <<7>>)>>>>, <<<<>>, <<Com("Tea", <<3>>)>>>>}}

(* the (key, timestamp) pairs a frame delivers *)
KeyTs(m) ==
  IF m.schema = COMMODITY_SCHEMA_REF
  THEN {<<"market", m.body.market, m.body.ts.clock>>}
  ELSE {<<"system", it.addr, m.body.ts.clock>> : it \in Range(ItemsOf(m.body))}

DistinctPerKey(B) ==
  \A m1, m2 \in B : m1 # m2 =>
     \A k1 \in KeyTs(m1), k2 \in KeyTs(m2) : ~(k1[1] = k2[1] /\ k1[2] = k2[2] /\ k1[3] = k2[3])

MaxBatch == 3
Batches ==
  {B \in SUBSET PoolMsgs : Cardinality(B) \in 2..MaxBatch /\ DistinctPerKey(B)}

ReorderInit ==
  /\ ListenerInit
  /\ recs = <<>> /\ bres = NoBres /\ unit = NoUnit
  /\ \E B \in Batches : batch = CHOOSE f \in [1..Cardinality(B) -> B] : Range(f) = B
  /\ db1 = EmptyDb /\ db2 = EmptyDb
  /\ ord1 = <<>> /\ ord2 = <<>>

Pending(ord) == {i \in 1..Len(batch) : i \notin Range(ord)}

(* the next frame of the first order: the batch in its listed order;   *)
(* every other order is compared against it                            *)
Step1 ==
  Len(ord1) < Len(batch) /\
  LET i == Len(ord1) + 1 IN \E o \in ProcessEddnMessage(db1, batch[i]) :
     /\ db1' = o.db /\ ord1' = Append(ord1, i)
     /\ UNCHANGED <<db, lastMsg, out, step, best, batch, db2, ord2, recs, bres, unit>>

(* the next frame of the second order *)
Step2 ==
  \E i \in Pending(ord2) : \E o \in ProcessEddnMessage(db2, batch[i]) :
     /\ db2' = o.db /\ ord2' = Append(ord2, i)
     /\ UNCHANGED <<db, lastMsg, out, step, best, batch, db1, ord1, recs, bres, unit>>

ReorderNext == Step1 \/ Step2
ReorderSpec == ReorderInit /\ [][ReorderNext]_vars

----------------------------------------------------------------------------
(* Column values a record carries once the sentinel policy is applied *)
XOf(p) == IF p = NoPos THEN Sentinel ELSE p[1]
YOf(p) == IF p = NoPos THEN Sentinel ELSE p[2]
ZOf(p) == IF p = NoPos THEN Sentinel ELSE p[3]

SameCoords(r, p) ==
  /\ r.x = XOf(p) /\ r.y = YOf(p) /\ r.z = ZOf(p)
  /\ r.coords = <<XOf(p), YOf(p), ZOf(p)>>

(* updated_at of a system row never decreases *)
SystemTsMonotone ==
  \A a \in DOMAIN db.systems :
     a \in DOMAIN db'.systems /\ db'.systems[a].updated_at >= db.systems[a].updated_at

(* C1 (claim as stated): the row of system 1 carries the greatest delivered *)
(* timestamp, and its name and coordinates are those of the record bearing *)
(* it; updated_at never decreases.                                         *)
C1State ==
  1 \in DOMAIN db.systems =>
     /\ best.has
     /\ db.systems[1].updated_at = best.ts
     /\ db.systems[1].name = best.name
     /\ SameCoords(db.systems[1], best.pos)
C1Claim == []C1State /\ [][SystemTsMonotone]_vars

(* C1 (amended): the row of system 1 carries the greatest delivered        *)
(* timestamp and the coordinates of the first delivered record bearing it  *)
(* (sentinel when that record has none); its name is that record's name   *)
(* when the record carries one; a nameless record that writes the row     *)
(* keeps the earlier name, or gives "Unknown" on insert, and the name     *)
(* changes only when the row is written; updated_at never decreases.      *)
C1AmState ==
  1 \in DOMAIN db.systems =>
     /\ best.has
     /\ db.systems[1].updated_at = best.ts
     /\ (best.name # NoName => db.systems[1].name = best.name)
     /\ SameCoords(db.systems[1], best.pos)
C1NameStep ==
  LET its == SelectSeq(ItemsOf(lastMsg'.body), LAMBDA it : it.addr = 1)
  IN /\ (1 \in DOMAIN db'.systems
         /\ (1 \notin DOMAIN db.systems
             \/ db'.systems[1].updated_at # db.systems[1].updated_at)) =>
          /\ its # <<>>
          /\ db'.systems[1].name =
                IF its[1].name # NoName THEN its[1].name
                ELSE IF 1 \in DOMAIN db.systems THEN db.systems[1].name
                ELSE "Unknown"
     /\ (1 \in DOMAIN db.systems
         /\ db'.systems[1].updated_at = db.systems[1].updated_at) =>
          db'.systems[1].name = db.systems[1].name
C1Amended == []C1AmState /\ [][SystemTsMonotone /\ C1NameStep]_vars

(* reached: system 1 was overwritten by a newer nameless record *)
C1Witness ==
  /\ 1 \in DOMAIN db.systems
  /\ best.has /\ best.ts > 60 /\ best.name = NoName
  /\ db.systems[1].name # "Unknown"

(* C2 (claim as stated): delivering the previous frame again leaves the    *)
(* four tables as they were and is counted as ignored.                     *)
C2Claim == [][step' = "replay" => db' = db /\ out'.ign /\ ~out'.acc]_vars

(* the frame just handled, its market id and effective instant *)
LastMarket == lastMsg.body.market
LastTs == out.eff.instant

(* C6: a commodity frame for a market whose station has updated_at >= the *)
(* frame's timestamp is ignored and writes no Station, Commodity or       *)
(* StationCommodity row.                                                  *)
C6Stale ==
  [][ ( /\ step' # "init"
        /\ lastMsg'.schema = COMMODITY_SCHEMA_REF
        /\ lastMsg'.body.market \in DOMAIN db.stations
        /\ db.stations[lastMsg'.body.market].updated_at >= out'.eff.instant )
      => (db' = db /\ out'.ign /\ ~out'.acc) ]_vars

(* reached: a stale commodity frame was ignored (equal timestamps) *)
C6Witness ==
  /\ step # "init" /\ out.handler = "commodity" /\ out.ign
  /\ LastMarket \in DOMAIN db.stations
  /\ db.stations[LastMarket].updated_at = LastTs
  /\ lastMsg.body.coms # <<>>
  /\ lastMsg.body.stationName # NoName

(* C7: an accepted commodity frame upserts its station (name, prohibited, *)
(* updated_at), creates the commodities it names, and writes exactly one  *)
(* listing per named commodity with the frame's values; unnamed entries   *)
(* are skipped and no other listing changes.                              *)
NamedComs(m) == SelectSeq(m.body.coms, LAMBDA d : d.name # NoName)
C7Accepted ==
  [][ (step' # "init" /\ out'.acc /\ out'.handler = "commodity") =>
      LET b == lastMsg'.body
          ts == out'.eff.instant
          mk == b.market
          named == NamedComs(lastMsg')
          keys == {<<mk, CommodityId(db'.commodities, named[i].name)>> :
                     i \in 1..Len(named)}
      IN /\ mk \in DOMAIN db'.stations
         /\ db'.stations[mk].name = b.stationName
         /\ db'.stations[mk].prohibited = b.prohibited
         /\ db'.stations[mk].updated_at = ts
         /\ Range(db.commodities) \cup {named[i].name : i \in 1..Len(named)}
              = Range(db'.commodities)
         /\ NoName \notin Range(db'.commodities)
         /\ \A i \in 1..Len(named) :
               LET k == <<mk, CommodityId(db'.commodities, named[i].name)>>
               IN /\ k \in DOMAIN db'.listings
                  /\ db'.listings[k] =
                        [buy_price |-> IntOr0(named[i].buyPrice),
                         sell_price |-> IntOr0(named[i].sellPrice),
                         demand |-> IntOr0(named[i].demand),
                         demand_bracket |-> IntOr0(named[i].demandBracket),
                         stock |-> IntOr0(named[i].stock),
                         stock_bracket |-> IntOr0(named[i].stockBracket),
                         mean_price |-> IntOr0(named[i].meanPrice),
                         updated_at |-> ts]
         /\ DOMAIN db'.listings = DOMAIN db.listings \cup keys
         /\ \A k \in DOMAIN db.listings \ keys : db'.listings[k] = db.listings[k] ]_vars

(* reached: an accepted frame overwrote an existing listing and skipped an *)
(* unnamed entry                                                           *)
C7Witness ==
  /\ out.acc /\ out.handler = "commodity"
  /\ LastTs = 120
  /\ \E k \in DOMAIN db.listings : db.listings[k].updated_at = 120
  /\ Cardinality(DOMAIN db.listings) = 2

(* C8: a frame whose processing raises leaves the store as it was *)
C8Atomic == [][ (step' # "init" /\ out'.raised) => db' = db ]_vars

(* reached: a commodity frame raised after its station row was flushed *)
C8Witness ==
  /\ out.raised /\ out.handler = "commodity"
  /\ lastMsg.body.coms = <<Com("Gold", <<>>), Com("Gold", <<7>>)>>
  /\ LastMarket \notin DOMAIN db.stations

(* both orders have processed the whole batch *)
BothDone == Len(batch) > 0 /\ Len(ord1) = Len(batch) /\ Len(ord2) = Len(batch)

(* listings keyed by market and commodity name *)
ListingsByName(d) ==
  {<<k[1], d.commodities[k[2]], d.listings[k]>> : k \in DOMAIN d.listings}

(* C3 (claim as stated): the two orders end with the same systems,        *)
(* stations and station_commodities rows.                                 *)
C3Claim ==
  BothDone =>
     /\ db1.systems = db2.systems
     /\ db1.stations = db2.stations
     /\ ListingsByName(db1) = ListingsByName(db2)

(* C3 (amended): the two orders end with the same set of systems, each    *)
(* with the same updated_at and coordinates, and with the same name when  *)
(* the system's latest record in the batch carries one; the same set of   *)
(* stations, each with the same name, prohibited list and updated_at; and *)
(* the same listings carrying each station's latest timestamp.  In either *)
(* order no step removes a row or moves its updated_at back.              *)
LatestListings(d) ==
  {l \in ListingsByName(d) : l[3].updated_at = d.stations[l[1]].updated_at}

(* the (timestamp, item) pairs the batch delivers for system a *)
BatchItemsFor(a) ==
  UNION {{<<batch[i].body.ts.clock, it>> :
            it \in {x \in Range(ItemsOf(batch[i].body)) : x.addr = a}} :
           i \in {j \in 1..Len(batch) : batch[j].schema # COMMODITY_SCHEMA_REF}}

(* the item of system a's latest record in the batch *)
LatestItem(a) ==
  (CHOOSE p \in BatchItemsFor(a) : \A q \in BatchItemsFor(a) : q[1] <= p[1])[2]

(* no row of store d is removed or moves its updated_at back in d' *)
NoRegress(d, dd) ==
  /\ \A a \in DOMAIN d.systems :
        a \in DOMAIN dd.systems /\ dd.systems[a].updated_at >= d.systems[a].updated_at
  /\ \A mk \in DOMAIN d.stations :
        mk \in DOMAIN dd.stations /\ dd.stations[mk].updated_at >= d.stations[mk].updated_at
  /\ \A k \in DOMAIN d.listings :
        k \in DOMAIN dd.listings /\ dd.listings[k].updated_at >= d.listings[k].updated_at

C3AmState ==
  BothDone =>
     /\ DOMAIN db1.systems = DOMAIN db2.systems
     /\ \A a \in DOMAIN db1.systems :
          /\ db1.systems[a].updated_at = db2.systems[a].updated_at
          /\ db1.systems[a].x = db2.systems[a].x
          /\ db1.systems[a].y = db2.systems[a].y
          /\ db1.systems[a].z = db2.systems[a].z
          /\ db1.systems[a].coords = db2.systems[a].coords
          /\ LatestItem(a).name # NoName =>
                db1.systems[a].name = LatestItem(a).name
                /\ db2.systems[a].name = LatestItem(a).name
     /\ DOMAIN db1.stations = DOMAIN db2.stations
     /\ \A mk \in DOMAIN db1.stations :
          /\ db1.stations[mk].name = db2.stations[mk].name
          /\ db1.stations[mk].prohibited = db2.stations[mk].prohibited
          /\ db1.stations[mk].updated_at = db2.stations[mk].updated_at
     /\ LatestListings(db1) = LatestListings(db2)
C3Amended == []C3AmState /\ [][NoRegress(db1, db1') /\ NoRegress(db2, db2')]_vars

(* reached: two different orders of a batch holding an older frame after *)
(* a newer one for the same system and the same market, where the         *)
(* system's latest record is named and an older one is nameless           *)
C3Witness ==
  /\ BothDone /\ ord1 # ord2 /\ Len(batch) = 3
  /\ \E a \in DOMAIN db1.systems :
        /\ db1.systems[a].updated_at = 120
        /\ LatestItem(a).name # NoName
        /\ \E p \in BatchItemsFor(a) : p[2].name = NoName
  /\ Market \in DOMAIN db1.stations

(* C4 (claim as stated): a record whose address is absent is inserted; a  *)
(* record whose address exists overwrites the row iff its updated_at is   *)
(* strictly greater; the result counts inserted and overwritten rows; an  *)
(* empty list returns 0 and writes nothing.                               *)
BulkStepOk(R) ==
  LET keys == {R[i].system_address : i \in 1..Len(R)}
      ins == keys \ DOMAIN db.systems
      upd == {a \in keys \cap DOMAIN db.systems :
                \E i \in 1..Len(R) : R[i].system_address = a
                     /\ db.systems[a].updated_at < R[i].updated_at}
  IN /\ ~bres'.raised
     /\ \A i \in 1..Len(R) :
          LET a == R[i].system_address IN
          /\ a \in DOMAIN db'.systems
          /\ (a \notin DOMAIN db.systems =>
                db'.systems[a] = NewRow(R[i]))
          /\ (a \in DOMAIN db.systems /\ db.systems[a].updated_at < R[i].updated_at =>
                /\ db'.systems[a].name = R[i].name
                /\ db'.systems[a].coords = R[i].coords
                /\ db'.systems[a].updated_at = R[i].updated_at)
          /\ (a \in DOMAIN db.systems /\ db.systems[a].updated_at >= R[i].updated_at =>
                db'.systems[a] = db.systems[a])
     /\ DOMAIN db'.systems = DOMAIN db.systems \cup keys
     /\ \A a \in DOMAIN db.systems \ keys : db'.systems[a] = db.systems[a]
     /\ bres'.count = Cardinality(ins) + Cardinality(upd)
C4Claim == [][step' = "bulk" => BulkStepOk(recs')]_vars

(* record i of R inserts or overwrites: its row is absent, or stored    *)
(* older (no earlier record of R has touched it, or the list fails)      *)
BulkAffects(R, i) ==
  LET a == R[i].system_address
  IN a \notin DOMAIN db.systems \/ db.systems[a].updated_at < R[i].updated_at

(* C4 (amended): a list in which an address appears again after a record *)
(* that inserted or overwrote it raises and writes nothing.  Otherwise   *)
(* every address is written by its one record that inserts or overwrites *)
(* (as stated in C4), other rows are unchanged, and the count is the     *)
(* number of addresses written; an empty list returns 0.                 *)
C4Amended ==
  [][step' = "bulk" =>
       LET R == recs'
           keys == {R[i].system_address : i \in 1..Len(R)}
       IN IF \E i, j \in 1..Len(R) :
                i < j /\ R[i].system_address = R[j].system_address /\ BulkAffects(R, i)
          THEN bres'.raised /\ bres'.count = 0 /\ db' = db
          ELSE /\ ~bres'.raised
               /\ DOMAIN db'.systems = DOMAIN db.systems \cup keys
               /\ \A i \in 1..Len(R) :
                    BulkAffects(R, i) =>
                      LET a == R[i].system_address IN
                      IF a \notin DOMAIN db.systems
                      THEN db'.systems[a] = NewRow(R[i])
                      ELSE /\ db'.systems[a].name = R[i].name
                           /\ db'.systems[a].coords = R[i].coords
                           /\ db'.systems[a].updated_at = R[i].updated_at
               /\ \A a \in DOMAIN db.systems :
                    (\A i \in 1..Len(R) : R[i].system_address = a => ~BulkAffects(R, i))
                    => db'.systems[a] = db.systems[a]
               /\ bres'.count =
                    Cardinality({R[i].system_address : i \in {k \in 1..Len(R) : BulkAffects(R, k)}})]_vars

(* reached: a replayed record counted 0 after an older one was skipped *)
(* and a newer one overwrote                                            *)
C4Witness ==
  /\ step = "bulk" /\ Len(recs) = 2 /\ Distinct(RecAddrs(recs))
  /\ bres.count = 1
  /\ \A i \in 1..2 : recs[i].system_address \in DOMAIN db.systems
  /\ \E i \in 1..2 : db.systems[recs[i].system_address].updated_at > recs[i].updated_at

(* C5: an overwrite writes name, x, y, z, coords, updated_at and          *)
(* row_updated_at, and leaves every other column as it was.               *)
C5Columns == {"name", "x", "y", "z", "coords", "updated_at", "row_updated_at"}
C5Overwrite ==
  [][ (step' = "bulk" /\ bres'.written # {}) =>
        /\ bres'.written = C5Columns
        /\ \A a \in DOMAIN db.systems \cap DOMAIN db'.systems :
              \A c \in DOMAIN db.systems[a] \ C5Columns :
                 db'.systems[a][c] = db.systems[a][c] ]_vars

(* The UTC instant an ISO 8601 string with "Z" or an explicit offset names *)
UtcInstant(v) ==
  v.clock * 60
  - (IF v.sfx.kind = "offset" THEN v.sfx.sign * (v.sfx.hh * 60 + v.sfx.mm) ELSE 0)

(* C9: the effective timestamp is message.timestamp when present (even    *)
(* with a gatewayTimestamp), else header.gatewayTimestamp; with neither   *)
(* the frame is ignored without raising or writing; the timestamp is an  *)
(* aware UTC instant, and a trailing Z is accepted.  An empty             *)
(* message.timestamp is not a timestamp: the call raises before routing   *)
(* and writes nothing.  A string with no offset is outside the feed's     *)
(* format; it is still the effective timestamp, but naive.                *)
C9Timestamp ==
  [][ step' = "route" =>
      LET bt == lastMsg'.body.ts
          gw == lastMsg'.header.gw
      IN IF bt.kind = "empty"
         THEN out'.raised /\ ~out'.acc /\ out'.commits = 0 /\ db' = db
         ELSE IF bt.kind = "iso" /\ bt.sfx.kind = "none"
         THEN out'.eff.kind = "body" /\ ~out'.eff.aware
         ELSE IF bt.kind = "iso"
         THEN out'.eff.kind = "body" /\ out'.eff.aware
              /\ out'.eff.instant = UtcInstant(bt)
         ELSE IF gw.kind = "iso"
         THEN out'.eff.kind = "gateway" /\ out'.eff.aware
              /\ out'.eff.instant = UtcInstant(gw)
         ELSE /\ ~out'.acc /\ out'.ign /\ ~out'.raised
              /\ out'.commits = 0 /\ db' = db ]_vars

(* reached: both timestamps present with a trailing Z on the body one and *)
(* the frame accepted under the body's instant                              *)
C9Witness ==
  /\ step = "route" /\ out.acc
  /\ lastMsg.header.gw.kind = "iso"
  /\ lastMsg.body.ts.kind = "iso" /\ lastMsg.body.ts.sfx = SfxZ
  /\ out.eff.kind = "body" /\ out.eff.instant = 60

(* the journal/FSS/nav allow-list of the system ingestor *)
C10SystemSchemas == SUPPORTED_SCHEMAS \ {COMMODITY_SCHEMA_REF}

(* C10: the commodity schema goes to the commodity ingestor only, the     *)
(* allow-list to the system ingestor only, any other schema is ignored    *)
(* without touching the store; the result is (True, False) with exactly   *)
(* one commit iff the ingestor accepted, else (False, True) with none.    *)
(* A frame whose timestamp raises before routing reaches no ingestor.    *)
C10Routing ==
  [][ (step' = "route" /\ out'.eff.kind # "none") =>
      IF out'.eff.kind = "raise" THEN out'.handler = "none" /\ db' = db ELSE
      LET sc == lastMsg'.schema IN
      /\ (sc = COMMODITY_SCHEMA_REF => out'.handler = "commodity")
      /\ (sc \in C10SystemSchemas => out'.handler = "system")
      /\ (sc \notin SUPPORTED_SCHEMAS =>
            out'.handler = "none" /\ db' = db /\ ~out'.acc /\ out'.ign)
      /\ (~out'.raised =>
            IF out'.hret
            THEN out'.acc /\ ~out'.ign /\ out'.commits = 1
            ELSE ~out'.acc /\ out'.ign /\ out'.commits = 0 /\ db' = db) ]_vars

(* reached: a navroute frame accepted and committed once *)
C10Witness ==
  /\ step = "route" /\ out.acc /\ out.commits = 1
  /\ out.handler = "system" /\ lastMsg.schema = NavRouteSchema

----------------------------------------------------------------------------
(* One call of parse_and_update_system on a session over a small store.  *)
(* every variable but unit at its initial value *)
UnitFrame ==
  /\ ListenerInit
  /\ recs = <<>> /\ bres = NoBres
  /\ batch = <<>> /\ db1 = EmptyDb /\ db2 = EmptyDb
  /\ ord1 = <<>> /\ ord2 = <<>>

MaxRoute == 3
OldRow(t) == [name |-> "Old", x |-> 0, y |-> 0, z |-> 0, coords |-> P2,
              updated_at |-> t, requires_permit |-> FALSE]
UnitSystemStores ==
  {[a \in D |-> OldRow(f[a])] : D \in SUBSET {1, 2}, f \in [{1, 2} -> Times]}
UnitItems ==
  {Item(NoAddr, "Ra", P1), Item(1, "Sol", P1), Item(2, NoName, NoPos),
   Item(3, "Ra", P2)}
(* StarPos lists of the wrong length *)
P2D == <<5, 6>>
UnitShortPosItems == {Item(1, "Sol", P2D), Item(3, "Ra", P2D)}
UnitSystemBodies ==
  {Body(TsIso(1), TRUE, NoAddr, NoName, NoPos, its, NoAddr, NoName, NoName,
        <<>>, <<>>) :
     its \in UNION {[1..k -> UnitItems] : k \in 0..MaxRoute}}
  \cup {Body(TsIso(1), FALSE, it.addr, it.name, it.pos, <<>>, NoAddr, NoName,
             NoName, <<>>, <<>>) : it \in UnitItems \cup UnitShortPosItems}

ParseInit ==
  /\ UnitFrame
  /\ \E st \in UnitSystemStores, b \in UnitSystemBodies, t \in Times :
        unit = [phase |-> "in", S |-> InitSession([EmptyDb EXCEPT !.systems = st]),
                body |-> b, ts |-> t, res |-> [s |-> InitSession(EmptyDb), ok |-> FALSE]]

ParseCall ==
  /\ unit.phase = "in"
  /\ unit' = [unit EXCEPT !.phase = "out",
                          !.res = ParseAndUpdateSystem(unit.S, unit.body, unit.ts)]
  /\ UNCHANGED <<db, lastMsg, out, step, best, batch, db1, db2, ord1, ord2, recs, bres>>

ParseSpec == ParseInit /\ [][ParseCall]_vars

(* the addresses a call upserted: rows it modified and objects it added *)
Upserted(S0, S1) ==
  {a \in DOMAIN S1.rows : S1.rows[a] # S0.rows[a]} \cup Range(PendAddrs(S1))
UpsertCount(S0, S1) ==
  Cardinality({a \in DOMAIN S1.rows : S1.rows[a] # S0.rows[a]}) + Len(S1.pend)

(* an item newer than what the store held before the call *)
FreshIn(S0, it, ts) ==
  it.addr # NoAddr
  /\ (it.addr \notin DOMAIN S0.rows \/ S0.rows[it.addr].updated_at < ts)

(* C11: a Route body is accepted iff one of its items is fresh; items      *)
(* without SystemAddress are never upserted; when the addressed items are  *)
(* fresh and distinct, each of them is upserted exactly once.              *)
C11Route ==
  (unit.phase = "out" /\ unit.body.route) =>
    LET its == unit.body.items
        S0 == unit.S
        r == unit.res
        addressed == {i \in 1..Len(its) : its[i].addr # NoAddr}
        addrs == {its[i].addr : i \in addressed}
    IN /\ (r.ok <=> \E i \in 1..Len(its) : FreshIn(S0, its[i], unit.ts))
       /\ Upserted(S0, r.s) \subseteq addrs
       /\ ((Cardinality(addrs) = Cardinality(addressed)
            /\ \A i \in addressed : FreshIn(S0, its[i], unit.ts))
           => Upserted(S0, r.s) = addrs
              /\ UpsertCount(S0, r.s) = Cardinality(addressed))

(* reached: three items, one without address, two fresh and distinct *)
C11Witness ==
  /\ unit.phase = "out" /\ unit.body.route /\ unit.res.ok
  /\ Len(unit.body.items) = 3
  /\ \E i \in 1..3 : unit.body.items[i].addr = NoAddr
  /\ UpsertCount(unit.S, unit.res.s) = 2
  /\ Cardinality(Upserted(unit.S, unit.res.s)) = 2

(* C12: a body without Route and without SystemAddress is ignored with no *)
(* write; one whose System is at least as new is ignored with no write;    *)
(* any other is accepted with exactly one upsert stamped with the frame's  *)
(* timestamp, even when it carries neither a name nor coordinates.         *)
C12Single ==
  (unit.phase = "out" /\ ~unit.body.route) =>
    LET a == unit.body.addr
        S0 == unit.S
        r == unit.res
    IN IF a = NoAddr \/ (a \in DOMAIN S0.rows /\ S0.rows[a].updated_at >= unit.ts)
       THEN ~r.ok /\ r.s = S0
       ELSE /\ r.ok
            /\ Upserted(S0, r.s) = {a} /\ UpsertCount(S0, r.s) = 1
            /\ IF a \in DOMAIN S0.rows THEN r.s.rows[a].updated_at = unit.ts
               ELSE r.s.pend[1].row.updated_at = unit.ts

(* reached: a body with neither name nor coordinates advanced an existing *)
(* row's updated_at                                                        *)
C12Witness ==
  /\ unit.phase = "out" /\ ~unit.body.route /\ unit.res.ok
  /\ unit.body.name = NoName /\ unit.body.pos = NoPos
  /\ unit.body.addr \in DOMAIN unit.S.rows
  /\ unit.S.rows[unit.body.addr].updated_at < unit.res.s.rows[unit.body.addr].updated_at

----------------------------------------------------------------------------
(* One call of parse_and_update_station_commodities on a small store.    *)
SysRow(n) == [OldRow(1) EXCEPT !.name = n]
UnitComStores ==
  {[systems |-> sy, stations |-> st, commodities |-> cl[1], listings |-> cl[2]] :
     sy \in {<<>>, 1 :> SysRow("Sol"), (1 :> SysRow("Sol")) @@ (2 :> SysRow("Sol"))},
     st \in {<<>>} \cup
            {Market :> [name |-> "Old", system_address |-> sa, prohibited |-> pr,
                        updated_at |-> t] :
               sa \in {NoAddr, 1}, pr \in {<<"Slaves">>, <<>>}, t \in Times},
     cl \in {<<<<>>, <<>>>>, <<<<"Gold">>, <<>>>>,
             <<<<"Gold">>, <<Market, 1>> :> ListingRow(Com("Gold", <<5>>), 1)>>}}
UnitComLists ==
  {<<>>, <<Com("Gold", <<-1>>)>>, <<Com("Tea", <<>>), Com("Gold", <<7>>)>>}
UnitComBodies ==
  {Body(TsIso(1), FALSE, NoAddr, NoName, NoPos, <<>>, mk, sn, syn, pr, cs) :
     mk \in {NoAddr, Market}, sn \in {"Abe", NoName}, syn \in {"Sol", NoName},
     pr \in {<<"Tea">>, <<>>}, cs \in UnitComLists}

ComUnitInit ==
  /\ UnitFrame
  /\ \E d \in UnitComStores, b \in UnitComBodies, t \in Times :
        unit = [phase |-> "in", db0 |-> d, body |-> b, ts |-> t,
                res |-> [s |-> d, ok |-> FALSE, raised |-> FALSE]]

ComUnitCall ==
  /\ unit.phase = "in"
  /\ \E o \in ParseAndUpdateStationCommodities(unit.db0, unit.body, unit.ts) :
        unit' = [unit EXCEPT !.phase = "out", !.res = o]
  /\ UNCHANGED <<db, lastMsg, out, step, best, batch, db1, db2, ord1, ord2, recs, bres>>

ComUnitSpec == ComUnitInit /\ [][ComUnitCall]_vars

(* C13: a body missing marketId, stationName or systemName is ignored and *)
(* writes nothing, whatever station the store holds.                      *)
C13Missing ==
  (unit.phase = "out" /\ "db0" \in DOMAIN unit
   /\ (unit.body.market = NoAddr \/ unit.body.stationName = NoName
       \/ unit.body.systemName = NoName))
  => ~unit.res.ok /\ ~unit.res.raised /\ unit.res.s = unit.db0

(* reached: a station older than the frame exists and the body lacks its *)
(* systemName                                                             *)
C13Witness ==
  /\ unit.phase = "out" /\ "db0" \in DOMAIN unit
  /\ unit.body.market = Market /\ unit.body.stationName # NoName
  /\ unit.body.systemName = NoName
  /\ Market \in DOMAIN unit.db0.stations
  /\ unit.db0.stations[Market].updated_at < unit.ts
  /\ unit.body.coms # <<>>
  /\ ~unit.res.ok

(* the listing keys a call wrote *)
WrittenListings(d0, d1) ==
  {k \in DOMAIN d1.listings : k \notin DOMAIN d0.listings \/ d1.listings[k] # d0.listings[k]}

ListingFields ==
  {"buy_price", "sell_price", "demand", "demand_bracket", "stock", "stock_bracket",
   "mean_price"}

(* C14: every listing a frame writes holds the seven numeric fields as     *)
(* non-negative integers, a null or missing input field stored as 0.       *)
C14NonNegative ==
  (unit.phase = "out" /\ "db0" \in DOMAIN unit /\ unit.res.ok) =>
    \A k \in WrittenListings(unit.db0, unit.res.s) :
      /\ \A f \in ListingFields : unit.res.s.listings[k][f] \in Nat
      /\ \A i \in 1..Len(unit.body.coms) :
           (unit.body.coms[i].name = unit.res.s.commodities[k[2]]
            /\ unit.body.coms[i].buyPrice = <<>>)
           => unit.res.s.listings[k].buy_price = 0

(* C16: after an accepted frame for an existing station, its prohibited  *)
(* list is exactly the frame's (replaced, not merged), and its name and   *)
(* updated_at are the frame's stationName and timestamp.                  *)
C16Replace ==
  (unit.phase = "out" /\ "db0" \in DOMAIN unit /\ unit.res.ok
   /\ unit.body.market \in DOMAIN unit.db0.stations) =>
    LET st == unit.res.s.stations[unit.body.market]
    IN /\ st.prohibited = unit.body.prohibited
       /\ st.name = unit.body.stationName
       /\ st.updated_at = unit.ts

(* reached: an accepted frame replaced a different prohibited list *)
C16Witness ==
  /\ unit.phase = "out" /\ "db0" \in DOMAIN unit /\ unit.res.ok
  /\ unit.body.market \in DOMAIN unit.db0.stations
  /\ unit.db0.stations[unit.body.market].prohibited = <<"Slaves">>
  /\ unit.res.s.stations[unit.body.market].prohibited = <<"Tea">>

(* the systemName every commodity frame of the main universe carries *)
MainStationSystemName == "Sol"

(* C15 as stated: a station left without a parent system is linked once a *)
(* System of that name has been ingested, with no further commodity frame  *)
C15Linked ==
  \A m \in DOMAIN db.stations :
     db.stations[m].system_address = NoAddr =>
        \A a \in DOMAIN db.systems : db.systems[a].name # MainStationSystemName

(* C15 amended: system frames never touch stations; a null system_address *)
(* is filled in only by a later accepted commodity frame for that station  *)
(* that finds a System named systemName, with the address of such a        *)
(* System; a non-null system_address never changes.                         *)
C15Amended ==
  [][ step' # "init" =>
      /\ (out'.handler # "commodity" => db'.stations = db.stations)
      /\ \A m \in DOMAIN db.stations :
            db.stations[m].system_address # NoAddr
            => db'.stations[m].system_address = db.stations[m].system_address
      /\ \A m \in DOMAIN db.stations :
            (db.stations[m].system_address = NoAddr
             /\ db'.stations[m].system_address # NoAddr)
            => /\ out'.acc /\ out'.handler = "commodity"
               /\ lastMsg'.body.market = m
               /\ db.systems[db'.stations[m].system_address].name
                    = lastMsg'.body.systemName
      /\ LET mk == lastMsg'.body.market IN
         (out'.acc /\ out'.handler = "commodity" /\ mk \in DOMAIN db.stations
          /\ db.stations[mk].system_address = NoAddr
          /\ \E a \in DOMAIN db.systems : db.systems[a].name = lastMsg'.body.systemName)
         => db'.stations[mk].system_address # NoAddr ]_vars

(* reached: an accepted commodity frame linked a station written earlier *)
(* without a parent system                                               *)
C15Witness ==
  /\ out.acc /\ out.handler = "commodity" /\ out.linked
  /\ db.stations[LastMarket].system_address # NoAddr

(* the commodity names a frame mentions *)
FrameNames(m) ==
  {m.body.coms[i].name : i \in 1..Len(m.body.coms)} \ {NoName}

(* C17: commodity names stay unique; a name is added only by an accepted *)
(* commodity frame naming it, and every accepted frame leaves all of its  *)
(* names present; existing rows keep their id and name.                   *)
C17Commodities ==
  [][ step' # "init" =>
      /\ Distinct(db'.commodities)
      /\ Len(db.commodities) <= Len(db'.commodities)
      /\ \A i \in 1..Len(db.commodities) : db'.commodities[i] = db.commodities[i]
      /\ \A n \in Range(db'.commodities) \ Range(db.commodities) :
            out'.acc /\ out'.handler = "commodity" /\ n \in FrameNames(lastMsg')
      /\ ((out'.acc /\ out'.handler = "commodity")
          => FrameNames(lastMsg') \subseteq Range(db'.commodities)) ]_vars

(* reached: a frame naming Gold was accepted after Tea had been created *)
C17Witness ==
  /\ out.acc /\ out.handler = "commodity"
  /\ lastMsg.body.coms = <<Com("Gold", <<7>>)>>
  /\ db.commodities = <<"Tea", "Gold">>

----------------------------------------------------------------------------
(* app/autocomplete.py.  A string is the sequence of its code points;    *)
(* Python compares strings by code point and str.lower maps A-Z to a-z.  *)
(* the one-to-one lower-case mappings of str.lower() (Unicode 14.0), as  *)
(* runs <<first, last, stride, delta>>: every stride-th code point from    *)
(* first to last lowers to itself plus delta                               *)
LowerRuns ==
  {<<65, 90, 1, 32>>, <<192, 222, 2, 32>>, <<193, 213, 2, 32>>,
   <<217, 221, 2, 32>>, <<256, 302, 2, 1>>, <<306, 310, 2, 1>>,
   <<313, 327, 2, 1>>, <<330, 374, 2, 1>>, <<376, 376, 1, -121>>,
   <<377, 381, 2, 1>>, <<385, 385, 1, 210>>, <<386, 388, 2, 1>>,
   <<390, 390, 1, 206>>, <<391, 391, 1, 1>>, <<393, 394, 1, 205>>,
   <<395, 395, 1, 1>>, <<398, 398, 1, 79>>, <<399, 399, 1, 202>>,
   <<400, 400, 1, 203>>, <<401, 401, 1, 1>>, <<403, 403, 1, 205>>,
   <<404, 404, 1, 207>>, <<406, 406, 1, 211>>, <<407, 407, 1, 209>>,
   <<408, 408, 1, 1>>, <<412, 412, 1, 211>>, <<413, 413, 1, 213>>,
   <<415, 415, 1, 214>>, <<416, 420, 2, 1>>, <<422, 422, 1, 218>>,
   <<423, 423, 1, 1>>, <<425, 425, 1, 218>>, <<428, 428, 1, 1>>,
   <<430, 430, 1, 218>>, <<431, 431, 1, 1>>, <<433, 434, 1, 217>>,
   <<435, 437, 2, 1>>, <<439, 439, 1, 219>>, <<440, 440, 1, 1>>,
   <<444, 444, 1, 1>>, <<452, 452, 1, 2>>, <<453, 453, 1, 1>>,
   <<455, 455, 1, 2>>, <<456, 456, 1, 1>>, <<458, 458, 1, 2>>,
   <<459, 475, 2, 1>>, <<478, 494, 2, 1>>, <<497, 497, 1, 2>>,
   <<498, 500, 2, 1>>, <<502, 502, 1, -97>>, <<503, 503, 1, -56>>,
   <<504, 542, 2, 1>>, <<544, 544, 1, -130>>, <<546, 562, 2, 1>>,
   <<570, 570, 1, 10795>>, <<571, 571, 1, 1>>, <<573, 573, 1, -163>>,
   <<574, 574, 1, 10792>>, <<577, 577, 1, 1>>, <<579, 579, 1, -195>>,
   <<580, 580, 1, 69>>, <<581, 581, 1, 71>>, <<582, 590, 2, 1>>,
   <<880, 882, 2, 1>>, <<886, 886, 1, 1>>, <<895, 895, 1, 116>>,
   <<902, 902, 1, 38>>, <<904, 906, 1, 37>>, <<908, 908, 1, 64>>,
   <<910, 911, 1, 63>>, <<913, 939, 2, 32>>, <<914, 928, 2, 32>>,
   <<932, 938, 2, 32>>, <<975, 975, 1, 8>>, <<984, 1006, 2, 1>>,
   <<1012, 1012, 1, -60>>, <<1015, 1015, 1, 1>>, <<1017, 1017, 1, -7>>,
   <<1018, 1018, 1, 1>>, <<1021, 1023, 1, -130>>, <<1024, 1039, 1, 80>>,
   <<1040, 1071, 1, 32>>, <<1120, 1152, 2, 1>>, <<1162, 1214, 2, 1>>,
   <<1216, 1216, 1, 15>>, <<1217, 1229, 2, 1>>, <<1232, 1326, 2, 1>>,
   <<1329, 1366, 1, 48>>, <<4256, 4293, 1, 7264>>, <<4295, 4295, 1, 7264>>,
   <<4301, 4301, 1, 7264>>, <<5024, 5103, 1, 38864>>, <<5104, 5109, 1, 8>>,
   <<7312, 7354, 1, -3008>>, <<7357, 7359, 1, -3008>>,
   <<7680, 7828, 2, 1>>, <<7838, 7838, 1, -7615>>, <<7840, 7934, 2, 1>>,
   <<7944, 7951, 1, -8>>, <<7960, 7965, 1, -8>>, <<7976, 7983, 1, -8>>,
   <<7992, 7999, 1, -8>>, <<8008, 8013, 1, -8>>, <<8025, 8031, 2, -8>>,
   <<8040, 8047, 1, -8>>, <<8072, 8079, 1, -8>>, <<8088, 8095, 1, -8>>,
   <<8104, 8111, 1, -8>>, <<8120, 8121, 1, -8>>, <<8122, 8123, 1, -74>>,
   <<8124, 8124, 1, -9>>, <<8136, 8139, 1, -86>>, <<8140, 8140, 1, -9>>,
   <<8152, 8153, 1, -8>>, <<8154, 8155, 1, -100>>, <<8168, 8169, 1, -8>>,
   <<8170, 8171, 1, -112>>, <<8172, 8172, 1, -7>>, <<8184, 8185, 1, -128>>,
   <<8186, 8187, 1, -126>>, <<8188, 8188, 1, -9>>,
   <<8486, 8486, 1, -7517>>, <<8490, 8490, 1, -8383>>,
   <<8491, 8491, 1, -8262>>, <<8498, 8498, 1, 28>>, <<8544, 8559, 1, 16>>,
   <<8579, 8579, 1, 1>>, <<9398, 9423, 1, 26>>, <<11264, 11311, 1, 48>>,
   <<11360, 11360, 1, 1>>, <<11362, 11362, 1, -10743>>,
   <<11363, 11363, 1, -3814>>, <<11364, 11364, 1, -10727>>,
   <<11367, 11371, 2, 1>>, <<11373, 11373, 1, -10780>>,
   <<11374, 11374, 1, -10749>>, <<11375, 11375, 1, -10783>>,
   <<11376, 11376, 1, -10782>>, <<11378, 11378, 1, 1>>,
   <<11381, 11381, 1, 1>>, <<11390, 11391, 1, -10815>>,
   <<11392, 11490, 2, 1>>, <<11499, 11501, 2, 1>>, <<11506, 11506, 1, 1>>,
   <<42560, 42604, 2, 1>>, <<42624, 42650, 2, 1>>, <<42786, 42798, 2, 1>>,
   <<42802, 42862, 2, 1>>, <<42873, 42875, 2, 1>>,
   <<42877, 42877, 1, -35332>>, <<42878, 42886, 2, 1>>,
   <<42891, 42891, 1, 1>>, <<42893, 42893, 1, -42280>>,
   <<42896, 42898, 2, 1>>, <<42902, 42920, 2, 1>>,
   <<42922, 42922, 1, -42308>>, <<42923, 42923, 1, -42319>>,
   <<42924, 42924, 1, -42315>>, <<42925, 42925, 1, -42305>>,
   <<42926, 42926, 1, -42308>>, <<42928, 42928, 1, -42258>>,
   <<42929, 42929, 1, -42282>>, <<42930, 42930, 1, -42261>>,
   <<42931, 42931, 1, 928>>, <<42932, 42946, 2, 1>>,
   <<42948, 42948, 1, -48>>, <<42949, 42949, 1, -42307>>,
   <<42950, 42950, 1, -35384>>, <<42951, 42953, 2, 1>>,
   <<42960, 42960, 1, 1>>, <<42966, 42968, 2, 1>>, <<42997, 42997, 1, 1>>,
   <<65313, 65338, 1, 32>>, <<66560, 66599, 1, 40>>,
   <<66736, 66771, 1, 40>>, <<66928, 66964, 2, 39>>,
   <<66929, 66937, 2, 39>>, <<66941, 66953, 2, 39>>,
   <<66957, 66961, 2, 39>>, <<66965, 66965, 1, 39>>,
   <<68736, 68786, 1, 64>>, <<71840, 71871, 1, 32>>,
   <<93760, 93791, 1, 32>>, <<125184, 125217, 1, 34>>}

(* str.lower() on one code point, as the code points it becomes; U+0130  *)
(* is the one capital that lowers to two                                  *)
LowerC(c) ==
  IF c < 256
  THEN IF c \in (65..90 \cup 192..222) \ {215} THEN <<c + 32>> ELSE <<c>>
  ELSE IF c = 304 THEN <<105, 775>>
  ELSE LET rs == {r \in LowerRuns : r[1] <= c /\ c <= r[2] /\ (c - r[1]) % r[3] = 0}
       IN IF rs = {} THEN <<c>> ELSE <<c + (CHOOSE r \in rs : TRUE)[4]>>

(* the code points str.lower() skips when it looks for the letters around *)
(* a capital sigma (Case_Ignorable), as ranges <<first, last>>            *)
SigmaIgnorable ==
  {<<39, 39>>, <<46, 46>>, <<58, 58>>, <<94, 94>>, <<96, 96>>,
   <<168, 168>>, <<173, 173>>, <<175, 175>>, <<180, 180>>, <<183, 184>>,
   <<688, 879>>, <<884, 885>>, <<890, 890>>, <<900, 901>>, <<903, 903>>,
   <<1155, 1161>>, <<1369, 1369>>, <<1375, 1375>>, <<1425, 1469>>,
   <<1471, 1471>>, <<1473, 1474>>, <<1476, 1477>>, <<1479, 1479>>,
   <<1524, 1524>>, <<1536, 1541>>, <<1552, 1562>>, <<1564, 1564>>,
   <<1600, 1600>>, <<1611, 1631>>, <<1648, 1648>>, <<1750, 1757>>,
   <<1759, 1768>>, <<1770, 1773>>, <<1807, 1807>>, <<1809, 1809>>,
   <<1840, 1866>>, <<1958, 1968>>, <<2027, 2037>>, <<2042, 2042>>,
   <<2045, 2045>>, <<2070, 2093>>, <<2137, 2139>>, <<2184, 2184>>,
   <<2192, 2193>>, <<2200, 2207>>, <<2249, 2306>>, <<2362, 2362>>,
   <<2364, 2364>>, <<2369, 2376>>, <<2381, 2381>>, <<2385, 2391>>,
   <<2402, 2403>>, <<2417, 2417>>, <<2433, 2433>>, <<2492, 2492>>,
   <<2497, 2500>>, <<2509, 2509>>, <<2530, 2531>>, <<2558, 2558>>,
   <<2561, 2562>>, <<2620, 2620>>, <<2625, 2626>>, <<2631, 2632>>,
   <<2635, 2637>>, <<2641, 2641>>, <<2672, 2673>>, <<2677, 2677>>,
   <<2689, 2690>>, <<2748, 2748>>, <<2753, 2757>>, <<2759, 2760>>,
   <<2765, 2765>>, <<2786, 2787>>, <<2810, 2815>>, <<2817, 2817>>,
   <<2876, 2876>>, <<2879, 2879>>, <<2881, 2884>>, <<2893, 2893>>,
   <<2901, 2902>>, <<2914, 2915>>, <<2946, 2946>>, <<3008, 3008>>,
   <<3021, 3021>>, <<3072, 3072>>, <<3076, 3076>>, <<3132, 3132>>,
   <<3134, 3136>>, <<3142, 3144>>, <<3146, 3149>>, <<3157, 3158>>,
   <<3170, 3171>>, <<3201, 3201>>, <<3260, 3260>>, <<3263, 3263>>,
   <<3270, 3270>>, <<3276, 3277>>, <<3298, 3299>>, <<3328, 3329>>,
   <<3387, 3388>>, <<3393, 3396>>, <<3405, 3405>>, <<3426, 3427>>,
   <<3457, 3457>>, <<3530, 3530>>, <<3538, 3540>>, <<3542, 3542>>,
   <<3633, 3633>>, <<3636, 3642>>, <<3654, 3662>>, <<3761, 3761>>,
   <<3764, 3772>>, <<3782, 3782>>, <<3784, 3789>>, <<3864, 3865>>,
   <<3893, 3893>>, <<3895, 3895>>, <<3897, 3897>>, <<3953, 3966>>,
   <<3968, 3972>>, <<3974, 3975>>, <<3981, 3991>>, <<3993, 4028>>,
   <<4038, 4038>>, <<4141, 4144>>, <<4146, 4151>>, <<4153, 4154>>,
   <<4157, 4158>>, <<4184, 4185>>, <<4190, 4192>>, <<4209, 4212>>,
   <<4226, 4226>>, <<4229, 4230>>, <<4237, 4237>>, <<4253, 4253>>,
   <<4348, 4348>>, <<4957, 4959>>, <<5906, 5908>>, <<5938, 5939>>,
   <<5970, 5971>>, <<6002, 6003>>, <<6068, 6069>>, <<6071, 6077>>,
   <<6086, 6086>>, <<6089, 6099>>, <<6103, 6103>>, <<6109, 6109>>,
   <<6155, 6159>>, <<6211, 6211>>, <<6277, 6278>>, <<6313, 6313>>,
   <<6432, 6434>>, <<6439, 6440>>, <<6450, 6450>>, <<6457, 6459>>,
   <<6679, 6680>>, <<6683, 6683>>, <<6742, 6742>>, <<6744, 6750>>,
   <<6752, 6752>>, <<6754, 6754>>, <<6757, 6764>>, <<6771, 6780>>,
   <<6783, 6783>>, <<6823, 6823>>, <<6832, 6862>>, <<6912, 6915>>,
   <<6964, 6964>>, <<6966, 6970>>, <<6972, 6972>>, <<6978, 6978>>,
   <<7019, 7027>>, <<7040, 7041>>, <<7074, 7077>>, <<7080, 7081>>,
   <<7083, 7085>>, <<7142, 7142>>, <<7144, 7145>>, <<7149, 7149>>,
   <<7151, 7153>>, <<7212, 7219>>, <<7222, 7223>>, <<7288, 7293>>,
   <<7376, 7378>>, <<7380, 7392>>, <<7394, 7400>>, <<7405, 7405>>,
   <<7412, 7412>>, <<7416, 7417>>, <<7468, 7530>>, <<7544, 7544>>,
   <<7579, 7679>>, <<8125, 8125>>, <<8127, 8129>>, <<8141, 8143>>,
   <<8157, 8159>>, <<8173, 8175>>, <<8189, 8190>>, <<8203, 8207>>,
   <<8216, 8217>>, <<8228, 8228>>, <<8231, 8231>>, <<8234, 8238>>,
   <<8288, 8292>>, <<8294, 8303>>, <<8305, 8305>>, <<8319, 8319>>,
   <<8336, 8348>>, <<8400, 8432>>, <<11388, 11389>>, <<11503, 11505>>,
   <<11631, 11631>>, <<11647, 11647>>, <<11744, 11775>>, <<11823, 11823>>,
   <<12293, 12293>>, <<12330, 12333>>, <<12337, 12341>>, <<12347, 12347>>,
   <<12441, 12446>>, <<12540, 12542>>, <<40981, 40981>>, <<42232, 42237>>,
   <<42508, 42508>>, <<42607, 42610>>, <<42612, 42621>>, <<42623, 42623>>,
   <<42652, 42655>>, <<42736, 42737>>, <<42752, 42785>>, <<42864, 42864>>,
   <<42888, 42890>>, <<42994, 42996>>, <<43000, 43001>>, <<43010, 43010>>,
   <<43014, 43014>>, <<43019, 43019>>, <<43045, 43046>>, <<43052, 43052>>,
   <<43204, 43205>>, <<43232, 43249>>, <<43263, 43263>>, <<43302, 43309>>,
   <<43335, 43345>>, <<43392, 43394>>, <<43443, 43443>>, <<43446, 43449>>,
   <<43452, 43453>>, <<43471, 43471>>, <<43493, 43494>>, <<43561, 43566>>,
   <<43569, 43570>>, <<43573, 43574>>, <<43587, 43587>>, <<43596, 43596>>,
   <<43632, 43632>>, <<43644, 43644>>, <<43696, 43696>>, <<43698, 43700>>,
   <<43703, 43704>>, <<43710, 43711>>, <<43713, 43713>>, <<43741, 43741>>,
   <<43756, 43757>>, <<43763, 43764>>, <<43766, 43766>>, <<43867, 43871>>,
   <<43881, 43883>>, <<44005, 44005>>, <<44008, 44008>>, <<44013, 44013>>,
   <<64286, 64286>>, <<64434, 64450>>, <<65024, 65039>>, <<65043, 65043>>,
   <<65056, 65071>>, <<65106, 65106>>, <<65109, 65109>>, <<65279, 65279>>,
   <<65287, 65287>>, <<65294, 65294>>, <<65306, 65306>>, <<65342, 65342>>,
   <<65344, 65344>>, <<65392, 65392>>, <<65438, 65439>>, <<65507, 65507>>,
   <<65529, 65531>>, <<66045, 66045>>, <<66272, 66272>>, <<66422, 66426>>,
   <<67456, 67461>>, <<67463, 67504>>, <<67506, 67514>>, <<68097, 68099>>,
   <<68101, 68102>>, <<68108, 68111>>, <<68152, 68154>>, <<68159, 68159>>,
   <<68325, 68326>>, <<68900, 68903>>, <<69291, 69292>>, <<69446, 69456>>,
   <<69506, 69509>>, <<69633, 69633>>, <<69688, 69702>>, <<69744, 69744>>,
   <<69747, 69748>>, <<69759, 69761>>, <<69811, 69814>>, <<69817, 69818>>,
   <<69821, 69821>>, <<69826, 69826>>, <<69837, 69837>>, <<69888, 69890>>,
   <<69927, 69931>>, <<69933, 69940>>, <<70003, 70003>>, <<70016, 70017>>,
   <<70070, 70078>>, <<70089, 70092>>, <<70095, 70095>>, <<70191, 70193>>,
   <<70196, 70196>>, <<70198, 70199>>, <<70206, 70206>>, <<70367, 70367>>,
   <<70371, 70378>>, <<70400, 70401>>, <<70459, 70460>>, <<70464, 70464>>,
   <<70502, 70508>>, <<70512, 70516>>, <<70712, 70719>>, <<70722, 70724>>,
   <<70726, 70726>>, <<70750, 70750>>, <<70835, 70840>>, <<70842, 70842>>,
   <<70847, 70848>>, <<70850, 70851>>, <<71090, 71093>>, <<71100, 71101>>,
   <<71103, 71104>>, <<71132, 71133>>, <<71219, 71226>>, <<71229, 71229>>,
   <<71231, 71232>>, <<71339, 71339>>, <<71341, 71341>>, <<71344, 71349>>,
   <<71351, 71351>>, <<71453, 71455>>, <<71458, 71461>>, <<71463, 71467>>,
   <<71727, 71735>>, <<71737, 71738>>, <<71995, 71996>>, <<71998, 71998>>,
   <<72003, 72003>>, <<72148, 72151>>, <<72154, 72155>>, <<72160, 72160>>,
   <<72193, 72202>>, <<72243, 72248>>, <<72251, 72254>>, <<72263, 72263>>,
   <<72273, 72278>>, <<72281, 72283>>, <<72330, 72342>>, <<72344, 72345>>,
   <<72752, 72758>>, <<72760, 72765>>, <<72767, 72767>>, <<72850, 72871>>,
   <<72874, 72880>>, <<72882, 72883>>, <<72885, 72886>>, <<73009, 73014>>,
   <<73018, 73018>>, <<73020, 73021>>, <<73023, 73029>>, <<73031, 73031>>,
   <<73104, 73105>>, <<73109, 73109>>, <<73111, 73111>>, <<73459, 73460>>,
   <<78896, 78904>>, <<92912, 92916>>, <<92976, 92982>>, <<92992, 92995>>,
   <<94031, 94031>>, <<94095, 94111>>, <<94176, 94177>>, <<94179, 94180>>,
   <<110576, 110579>>, <<110581, 110587>>, <<110589, 110590>>,
   <<113821, 113822>>, <<113824, 113827>>, <<118528, 118573>>,
   <<118576, 118598>>, <<119143, 119145>>, <<119155, 119170>>,
   <<119173, 119179>>, <<119210, 119213>>, <<119362, 119364>>,
   <<121344, 121398>>, <<121403, 121452>>, <<121461, 121461>>,
   <<121476, 121476>>, <<121499, 121503>>, <<121505, 121519>>,
   <<122880, 122886>>, <<122888, 122904>>, <<122907, 122913>>,
   <<122915, 122916>>, <<122918, 122922>>, <<123184, 123197>>,
   <<123566, 123566>>, <<123628, 123631>>, <<125136, 125142>>,
   <<125252, 125259>>, <<127995, 127999>>, <<917505, 917505>>,
   <<917536, 917631>>, <<917760, 917999>>}

(* the code points that are Cased and not Case_Ignorable *)
SigmaCased ==
  {<<65, 90>>, <<97, 122>>, <<170, 170>>, <<181, 181>>, <<186, 186>>,
   <<192, 214>>, <<216, 246>>, <<248, 442>>, <<444, 447>>, <<452, 659>>,
   <<661, 687>>, <<880, 883>>, <<886, 887>>, <<891, 893>>, <<895, 895>>,
   <<902, 902>>, <<904, 906>>, <<908, 908>>, <<910, 929>>, <<931, 1013>>,
   <<1015, 1153>>, <<1162, 1327>>, <<1329, 1366>>, <<1376, 1416>>,
   <<4256, 4293>>, <<4295, 4295>>, <<4301, 4301>>, <<4304, 4346>>,
   <<4349, 4351>>, <<5024, 5109>>, <<5112, 5117>>, <<7296, 7304>>,
   <<7312, 7354>>, <<7357, 7359>>, <<7424, 7467>>, <<7531, 7543>>,
   <<7545, 7578>>, <<7680, 7957>>, <<7960, 7965>>, <<7968, 8005>>,
   <<8008, 8013>>, <<8016, 8023>>, <<8025, 8025>>, <<8027, 8027>>,
   <<8029, 8029>>, <<8031, 8061>>, <<8064, 8116>>, <<8118, 8124>>,
   <<8126, 8126>>, <<8130, 8132>>, <<8134, 8140>>, <<8144, 8147>>,
   <<8150, 8155>>, <<8160, 8172>>, <<8178, 8180>>, <<8182, 8188>>,
   <<8450, 8450>>, <<8455, 8455>>, <<8458, 8467>>, <<8469, 8469>>,
   <<8473, 8477>>, <<8484, 8484>>, <<8486, 8486>>, <<8488, 8488>>,
   <<8490, 8493>>, <<8495, 8500>>, <<8505, 8505>>, <<8508, 8511>>,
   <<8517, 8521>>, <<8526, 8526>>, <<8544, 8575>>, <<8579, 8580>>,
   <<9398, 9449>>, <<11264, 11387>>, <<11390, 11492>>, <<11499, 11502>>,
   <<11506, 11507>>, <<11520, 11557>>, <<11559, 11559>>, <<11565, 11565>>,
   <<42560, 42605>>, <<42624, 42651>>, <<42786, 42863>>, <<42865, 42887>>,
   <<42891, 42894>>, <<42896, 42954>>, <<42960, 42961>>, <<42963, 42963>>,
   <<42965, 42969>>, <<42997, 42998>>, <<43002, 43002>>, <<43824, 43866>>,
   <<43872, 43880>>, <<43888, 43967>>, <<64256, 64262>>, <<64275, 64279>>,
   <<65313, 65338>>, <<65345, 65370>>, <<66560, 66639>>, <<66736, 66771>>,
   <<66776, 66811>>, <<66928, 66938>>, <<66940, 66954>>, <<66956, 66962>>,
   <<66964, 66965>>, <<66967, 66977>>, <<66979, 66993>>, <<66995, 67001>>,
   <<67003, 67004>>, <<68736, 68786>>, <<68800, 68850>>, <<71840, 71903>>,
   <<93760, 93823>>, <<119808, 119892>>, <<119894, 119964>>,
   <<119966, 119967>>, <<119970, 119970>>, <<119973, 119974>>,
   <<119977, 119980>>, <<119982, 119993>>, <<119995, 119995>>,
   <<119997, 120003>>, <<120005, 120069>>, <<120071, 120074>>,
   <<120077, 120084>>, <<120086, 120092>>, <<120094, 120121>>,
   <<120123, 120126>>, <<120128, 120132>>, <<120134, 120134>>,
   <<120138, 120144>>, <<120146, 120485>>, <<120488, 120512>>,
   <<120514, 120538>>, <<120540, 120570>>, <<120572, 120596>>,
   <<120598, 120628>>, <<120630, 120654>>, <<120656, 120686>>,
   <<120688, 120712>>, <<120714, 120744>>, <<120746, 120770>>,
   <<120772, 120779>>, <<122624, 122633>>, <<122635, 122654>>,
   <<125184, 125251>>, <<127280, 127305>>, <<127312, 127337>>,
   <<127344, 127369>>}

InRuns(c, R) == \E r \in R : r[1] <= c /\ c <= r[2]

(* the nearest position at or before j, or at or after j, whose code    *)
(* point is not case-ignorable; 0 when there is none                     *)
RECURSIVE PrevNotIgnorable(_, _)
PrevNotIgnorable(t, j) ==
  IF j < 1 THEN 0
  ELSE IF InRuns(t[j], SigmaIgnorable) THEN PrevNotIgnorable(t, j - 1) ELSE j
RECURSIVE NextNotIgnorable(_, _)
NextNotIgnorable(t, j) ==
  IF j > Len(t) THEN 0
  ELSE IF InRuns(t[j], SigmaIgnorable) THEN NextNotIgnorable(t, j + 1) ELSE j

(* handle_capital_sigma of str.lower(): the capital sigma at position i   *)
(* ends a word (a cased letter before it, none after it, case-ignorable   *)
(* code points skipped) and lowers to final sigma U+03C2                  *)
FinalSigma(t, i) ==
  LET j == PrevNotIgnorable(t, i - 1)
      k == NextNotIgnorable(t, i + 1)
  IN /\ j # 0 /\ InRuns(t[j], SigmaCased)
     /\ (k = 0 \/ ~InRuns(t[k], SigmaCased))

(* str.lower() from position i on *)
RECURSIVE LowerFrom(_, _)
LowerFrom(t, i) ==
  IF i > Len(t) THEN <<>>
  ELSE (IF t[i] = 931
        THEN IF FinalSigma(t, i) THEN <<962>> ELSE <<963>>
        ELSE LowerC(t[i])) \o LowerFrom(t, i + 1)

(* str.lower() *)
LowerS(t) == LowerFrom(t, 1)

RECURSIVE StrLt(_, _)
StrLt(t, u) ==
  IF t = <<>> THEN u # <<>>
  ELSE IF u = <<>> THEN FALSE
  ELSE IF Head(t) # Head(u) THEN Head(t) < Head(u)
  ELSE StrLt(Tail(t), Tail(u))

StrLe(t, u) == t = u \/ StrLt(t, u)

(* str.startswith *)
StartsWith(t, q) == Len(q) <= Len(t) /\ SubSeq(t, 1, Len(q)) = q

(* SystemAutocomplete._is_sorted *)
IsSorted(ns) == \A i \in 1..(Len(ns) - 1) : StrLe(ns[i], ns[i + 1])

Occurrences(ns, t) == Cardinality({i \in 1..Len(ns) : ns[i] = t})

(* list.sort() on str: ascending by code point *)
SortNames(ns) ==
  CHOOSE u \in [1..Len(ns) -> Range(ns)] :
     IsSorted(u) /\ \A t \in Range(ns) : Occurrences(u, t) = Occurrences(ns, t)

(* the code points str.strip() removes (str.isspace()) *)
StripChars == {9, 10, 11, 12, 13, 28, 29, 30, 31, 32, 133, 160, 5760,
               8192, 8193, 8194, 8195, 8196, 8197, 8198, 8199, 8200, 8201,
               8202, 8232, 8233, 8239, 8287, 12288}

(* str.strip() *)
RECURSIVE StrStrip(_)
StrStrip(t) ==
  IF t = <<>> THEN t
  ELSE IF Head(t) \in StripChars THEN StrStrip(Tail(t))
  ELSE IF t[Len(t)] \in StripChars THEN StrStrip(SubSeq(t, 1, Len(t) - 1))
  ELSE t

(* SystemAutocomplete.load_names: strip, drop blank lines, sort if needed *)
LoadNames(lines) ==
  LET kept == SelectSeq(lines, LAMBDA l : StrStrip(l) # <<>>)
      ns == [i \in 1..Len(kept) |-> StrStrip(kept[i])]
  IN IF IsSorted(ns) THEN ns ELSE SortNames(ns)

(* the binary search of SystemAutocomplete.search, 0-based bounds *)
RECURSIVE LowerBound(_, _, _, _)
LowerBound(ns, ql, left, right) ==
  IF left < right
  THEN LET mid == (left + right) \div 2
       IN IF StrLt(LowerS(ns[mid + 1]), ql)
          THEN LowerBound(ns, ql, mid + 1, right)
          ELSE LowerBound(ns, ql, left, mid)
  ELSE left

(* the forward scan from 1-based index i *)
RECURSIVE Collect(_, _, _, _, _)
Collect(ns, ql, i, limit, results) ==
  IF i > Len(ns) THEN results
  ELSE IF ~StartsWith(LowerS(ns[i]), ql) THEN results
  ELSE LET r == Append(results, ns[i])
       IN IF Len(r) >= limit THEN r ELSE Collect(ns, ql, i + 1, limit, r)

(* SystemAutocomplete.search on a loaded index *)
Search(ns, query, limit) ==
  IF query = <<>> THEN <<>>
  ELSE LET ql == LowerS(query)
       IN Collect(ns, ql, LowerBound(ns, ql, 0, Len(ns)) + 1, limit, <<>>)

(* lines of a names file as code points (the newline already removed):  *)
(* blank lines, letters in mixed case, padded names, Latin-1 capitals,   *)
(* U+0130 (lowers to two code points), a name led by U+3000 and a name  *)
(* ending in a capital sigma (lowers to final sigma)                     *)
NameA == <<65>>
Namea == <<97>>
NameB == <<66>>
Nameb == <<98>>
NameAb == <<65, 98>>
NamePadded == <<32, 97, 32>>
NameEa == <<201, 97>>
Nameeb == <<233, 98>>
NameIDot == <<304>>
NameIdeoA == <<12288, 65>>
NameASigma == <<65, 931>>
LinePool == {<<>>, <<32>>, NameA, Namea, NameB, Nameb, NameAb, NamePadded,
             NameEa, Nameeb, NameIDot, NameIdeoA, NameASigma}
MaxNames == 3
Queries == {<<>>, Namea, NameA, Nameb, <<97, 98>>, <<97, 32>>, <<233>>, <<105>>, <<97, 962>>}
Limits == {1, 2, 10}

AutoInit ==
  /\ UnitFrame
  /\ \E ls \in UNION {[1..k -> LinePool] : k \in 0..MaxNames},
        q \in Queries, lim \in Limits :
        unit = [phase |-> "in", lines |-> ls, query |-> q, limit |-> lim,
                names |-> <<>>, res |-> <<>>]

(* load_names, then one search *)
AutoLoad ==
  /\ unit.phase = "in"
  /\ unit' = [unit EXCEPT !.phase = "loaded", !.names = LoadNames(unit.lines)]
  /\ UNCHANGED <<db, lastMsg, out, step, best, batch, db1, db2, ord1, ord2, recs, bres>>

AutoSearch ==
  /\ unit.phase = "loaded"
  /\ unit' = [unit EXCEPT !.phase = "out",
                          !.res = Search(unit.names, unit.query, unit.limit)]
  /\ UNCHANGED <<db, lastMsg, out, step, best, batch, db1, db2, ord1, ord2, recs, bres>>

AutoNext == AutoLoad \/ AutoSearch
AutoSpec == AutoInit /\ [][AutoNext]_vars

(* the loaded names whose lower-cased form starts with the lower-cased query *)
MatchingNames(ns, q) == SelectSeq(ns, LAMBDA n : StartsWith(LowerS(n), LowerS(q)))

(* C18: search returns [] for an empty query and otherwise the first       *)
(* min(limit, k) matching names in index order.                            *)
C18Search ==
  unit.phase = "out" =>
    IF unit.query = <<>> THEN unit.res = <<>>
    ELSE LET mt == MatchingNames(unit.names, unit.query)
         IN unit.res = SubSeq(mt, 1, IF unit.limit < Len(mt) THEN unit.limit ELSE Len(mt))

(* C19: with a limit no smaller than the index, search for a non-empty    *)
(* prefix returns exactly the names whose lower-cased form starts with the *)
(* lower-cased prefix.                                                     *)
C19Sound ==
  (unit.phase = "out" /\ unit.query # <<>> /\ unit.limit >= Len(unit.names)) =>
    Range(unit.res) = Range(MatchingNames(unit.names, unit.query))

----------------------------------------------------------------------------
(* scripts/plan_route.py.  Lengths are integers in units of 0.5 LY, so   *)
(* every bubble radius the code uses is an integer; a distance test       *)
(* dist <= R is done on squares and the target point c + (g - c) * R / L  *)
(* (L = dist(c, g)) is handled exactly by squaring.                       *)
RoutePos ==
  (1 :> <<0, 0, 0>>) @@ (2 :> <<4, 1, 0>>) @@ (3 :> <<8, 0, 0>>) @@
  (4 :> <<12, -1, 0>>) @@ (5 :> <<9, 3, 0>>) @@ (6 :> <<16, 0, 0>>)
JumpRanges == {4, 6}
NoRoute == <<>>
NoPrev == -1
MaxBubble == 20

(* calculate_distance, squared *)
Dist2(p, q) == (p[1] - q[1]) ^ 2 + (p[2] - q[2]) ^ 2 + (p[3] - q[3]) ^ 2

(* p * sqrt(D) <= q and q <= p * sqrt(D) *)
MulSqrtLe(p, D, q) == IF p <= 0 THEN q >= 0 \/ p * p * D >= q * q
                      ELSE q >= 0 /\ p * p * D <= q * q
MulSqrtGe(p, D, q) == IF p >= 0 THEN q <= 0 \/ q * q <= p * p * D
                      ELSE q < 0 /\ q * q >= p * p * D

(* System.x/y/z between target -/+ radius, on every axis *)
InBubble(x, c, g, R, r) ==
  LET D == Dist2(c, g)
  IN \A i \in 1..3 :
       /\ MulSqrtLe(x[i] - c[i] - r, D, (g[i] - c[i]) * R)
       /\ MulSqrtGe(x[i] - c[i] + r, D, (g[i] - c[i]) * R)

(* find_best_system_at_range: the starting bubble *)
StartBubble(prev) ==
  IF prev = NoPrev THEN 2
  ELSE IF prev > 10 THEN 6
  ELSE IF prev > 6 THEN 4
  ELSE IF prev < 3 THEN 1
  ELSE 2

(* the bubble loop: the set of (candidate, radius) results; ties in score *)
(* go to the first row of an unordered query, so any of them             *)
RECURSIVE BubbleNoRange(_, _, _, _, _)
BubbleNoRange(sys, cur, g, R, r) ==
  IF r > MaxBubble THEN {[cand |-> NoAddr, radius |-> MaxBubble]}
  ELSE LET cands == {a \in sys : InBubble(RoutePos[a], RoutePos[cur], RoutePos[g], R, r)}
           valid == {a \in cands : a # cur}
           far(a) == Dist2(RoutePos[cur], RoutePos[a])
       IN IF valid # {}
          THEN {[cand |-> a, radius |-> r] :
                  a \in {b \in valid : \A c \in valid : far(c) <= far(b)}}
          ELSE BubbleNoRange(sys, cur, g, R,
                 r + (IF Cardinality(cands) > 20 THEN 1
                      ELSE IF Cardinality(cands) > 5 THEN 2 ELSE 3))

RECURSIVE Bubble(_, _, _, _, _)
Bubble(sys, cur, g, R, r) ==
  IF r > MaxBubble THEN {[cand |-> NoAddr, radius |-> MaxBubble]}
  ELSE LET cands == {a \in sys : InBubble(RoutePos[a], RoutePos[cur], RoutePos[g], R, r)}
           valid == {a \in cands : a # cur /\ Dist2(RoutePos[cur], RoutePos[a]) <= R * R}
           far(a) == Dist2(RoutePos[cur], RoutePos[a])
       IN IF valid # {}
          THEN {[cand |-> a, radius |-> r] :
                  a \in {b \in valid : \A c \in valid : far(c) <= far(b)}}
          ELSE Bubble(sys, cur, g, R,
                 r + (IF Cardinality(cands) > 20 THEN 1
                      ELSE IF Cardinality(cands) > 5 THEN 2 ELSE 3))

(* the bubble loop evaluated once for every store, current system, goal,  *)
(* range and starting radius the planner can meet                          *)
BubbleKeys ==
  {k \in (SUBSET (DOMAIN RoutePos)) \X (DOMAIN RoutePos) \X (DOMAIN RoutePos)
           \X JumpRanges \X {1, 2, 4, 6} :
     k[2] \in k[1] /\ k[3] \in k[1]}
BubbleTable ==
  [k \in BubbleKeys |-> Bubble(k[1], k[2], k[3], k[4], k[5])] @@ [k \in {} |-> {}]

FindBestSystemAtRange(sys, cur, g, R, prev) ==
  BubbleTable[<<sys, cur, g, R, StartBubble(prev)>>]

(* plan_route's max_hops = 100, scaled below the number of systems so   *)
(* that the hop limit can end a plan                                     *)
MAX_HOPS == 3

PlanInit ==
  /\ UnitFrame
  /\ \E sys \in SUBSET DOMAIN RoutePos, S \in DOMAIN RoutePos, G \in DOMAIN RoutePos,
        R \in JumpRanges :
        /\ S \in sys /\ G \in sys
        /\ unit = [phase |-> "in", sys |-> sys, S |-> S, G |-> G, R |-> R,
                   route |-> <<>>, visited |-> {}, cur |-> S, prev |-> NoPrev,
                   hop |-> 0, res |-> NoRoute]

UnitKeep == UNCHANGED <<db, lastMsg, out, step, best, batch, db1, db2, ord1, ord2, recs, bres>>

(* plan_route up to the greedy loop *)
PlanStart ==
  /\ unit.phase = "in"
  /\ IF Dist2(RoutePos[unit.S], RoutePos[unit.G]) <= unit.R * unit.R
     THEN unit' = [unit EXCEPT !.phase = "done", !.res = <<unit.S, unit.G>>]
     ELSE unit' = [unit EXCEPT !.phase = "hop", !.route = <<unit.S>>,
                               !.visited = {unit.S}, !.cur = unit.S]
  /\ UnitKeep

PlanHopSpin ==
  /\ unit.phase = "hop"
  /\ IF unit.hop >= MAX_HOPS
     THEN unit' = [unit EXCEPT !.phase = "done", !.res = NoRoute]
     ELSE IF Dist2(RoutePos[unit.cur], RoutePos[unit.G]) <= unit.R * unit.R
     THEN unit' = [unit EXCEPT !.phase = "done", !.hop = @ + 1,
                               !.res = Append(unit.route, unit.G)]
     ELSE \E b \in FindBestSystemAtRange(unit.sys, unit.cur, unit.G, unit.R, unit.prev) :
            IF b.cand = NoAddr
            THEN unit' = [unit EXCEPT !.phase = "done", !.hop = @ + 1, !.res = NoRoute]
            ELSE IF b.cand \in unit.visited
            THEN unit' = unit
            ELSE unit' = [unit EXCEPT !.hop = @ + 1, !.route = Append(@, b.cand),
                                      !.visited = @ \cup {b.cand}, !.cur = b.cand,
                                      !.prev = b.radius]
  /\ UnitKeep

(* one iteration of the while loop of plan_route *)
PlanHop ==
  /\ unit.phase = "hop"
  /\ IF unit.hop >= MAX_HOPS
     THEN unit' = [unit EXCEPT !.phase = "done", !.res = NoRoute]
     ELSE IF Dist2(RoutePos[unit.cur], RoutePos[unit.G]) <= unit.R * unit.R
     THEN unit' = [unit EXCEPT !.phase = "done", !.hop = @ + 1,
                               !.res = Append(unit.route, unit.G)]
     ELSE \E b \in FindBestSystemAtRange(unit.sys, unit.cur, unit.G, unit.R, unit.prev) :
            IF b.cand = NoAddr \/ b.cand \in unit.visited
            THEN unit' = [unit EXCEPT !.phase = "done", !.hop = @ + 1, !.res = NoRoute]
            ELSE unit' = [unit EXCEPT !.hop = @ + 1, !.route = Append(@, b.cand),
                                      !.visited = @ \cup {b.cand}, !.cur = b.cand,
                                      !.prev = b.radius]
  /\ UnitKeep

PlanNext == PlanStart \/ PlanHop
PlanSpec == PlanInit /\ [][PlanNext]_vars

(* a finished plan with a route *)
Planned == unit.phase = "done" /\ unit.res # NoRoute

(* consecutive systems of the result are within jump range *)
HopsInRange(rt, R) ==
  \A i \in 1..(Len(rt) - 1) : Dist2(RoutePos[rt[i]], RoutePos[rt[i + 1]]) <= R * R

(* C20 as stated: a result starts at S, ends at G, jumps at most R, repeats *)
(* no system, and is [S, G] when G is within R of S.                        *)
C20Valid ==
  Planned =>
    LET rt == unit.res IN
    /\ rt[1] = unit.S /\ rt[Len(rt)] = unit.G
    /\ HopsInRange(rt, unit.R)
    /\ Distinct(rt)
    /\ (Dist2(RoutePos[unit.S], RoutePos[unit.G]) <= unit.R * unit.R
        => rt = <<unit.S, unit.G>>)

(* C20 amended: the same, except that a repeated system occurs only for   *)
(* S = G, whose result is [S, S].                                         *)
C20Amended ==
  Planned =>
    LET rt == unit.res IN
    /\ rt[1] = unit.S /\ rt[Len(rt)] = unit.G
    /\ HopsInRange(rt, unit.R)
    /\ (unit.S # unit.G => Distinct(rt))
    /\ (unit.S = unit.G => rt = <<unit.S, unit.S>>)
    /\ (Dist2(RoutePos[unit.S], RoutePos[unit.G]) <= unit.R * unit.R
        => rt = <<unit.S, unit.G>>)

(* reached: a route of at least two intermediate systems *)
C20Witness ==
  Planned /\ unit.S # unit.G /\ Len(unit.res) >= 4

(* plan_route runs to completion: one process, nothing blocks it *)
PlanLiveSpec == PlanSpec /\ WF_vars(PlanNext)

(* C21: every call of plan_route returns, a route or None, after at most  *)
(* MAX_HOPS iterations of its loop; once MAX_HOPS iterations have passed   *)
(* without reaching G it returns None.                                     *)
C21Terminates ==
  /\ <>(unit.phase = "done")
  /\ [](unit.hop <= MAX_HOPS)
  /\ [][(unit.phase = "hop" /\ unit.hop >= MAX_HOPS) =>
         (unit'.phase = "done" /\ unit'.res = NoRoute)]_vars

(* reached: the search took MAX_HOPS hops without reaching G and gave up *)
(* with None                                                               *)
C21Witness ==
  /\ unit.phase = "done" /\ unit.res = NoRoute
  /\ unit.hop = MAX_HOPS /\ Len(unit.route) = MAX_HOPS + 1

----------------------------------------------------------------------------
(* The listener loop of main: one frame at a time through poll, recv,     *)
(* decompress and json.loads, process_eddn_message inside get_db, and the *)
(* two except clauses.  The signal handler may run at any point.           *)
FrameKinds == {"ok", "empty", "badzlib", "badjson", "dberror"}
MaxFrames == 2
NoExit == -1
FrameOutcome(k, lvl, c) == [kind |-> k, level |-> lvl, committed |-> c, slept |-> FALSE]

ListenInit ==
  /\ UnitFrame
  /\ \E q \in UNION {[1..n -> FrameKinds] : n \in 0..MaxFrames} :
        unit = [phase |-> "listen", pc |-> "top", flag |-> FALSE, queue |-> q,
                cur |-> "none", open |-> 0, outcomes |-> <<>>, recvAfter |-> 0,
                sockOpen |-> TRUE, exitCode |-> NoExit]

(* signal_handler: SIGINT or SIGTERM sets shutdown_flag *)
ListenSignal ==
  /\ unit.phase = "listen" /\ unit.pc # "exited" /\ ~unit.flag
  /\ unit' = [unit EXCEPT !.flag = TRUE]
  /\ UnitKeep

(* a loop head that never looks at shutdown_flag *)
ListenTopNoCheck ==
  /\ unit.phase = "listen" /\ unit.pc = "top"
  /\ unit' = [unit EXCEPT !.pc = "poll"]
  /\ UnitKeep

(* while not shutdown_flag; after the loop: subscriber.close(),          *)
(* context.term(), sys.exit(0)                                           *)
ListenTop ==
  /\ unit.phase = "listen" /\ unit.pc = "top"
  /\ IF unit.flag
     THEN unit' = [unit EXCEPT !.pc = "exited", !.sockOpen = FALSE, !.exitCode = 0]
     ELSE unit' = [unit EXCEPT !.pc = "poll"]
  /\ UnitKeep

(* subscriber.poll(timeout=1000): a frame is waiting, or the timeout      *)
(* expires and the loop continues                                         *)
ListenPoll ==
  /\ unit.phase = "listen" /\ unit.pc = "poll"
  /\ unit' = [unit EXCEPT !.pc = IF unit.queue # <<>> THEN "recv" ELSE "top"]
  /\ UnitKeep

(* subscriber.recv(); an empty frame goes back to the loop head *)
ListenRecv ==
  /\ unit.phase = "listen" /\ unit.pc = "recv"
  /\ unit' = [unit EXCEPT !.pc = IF Head(unit.queue) = "empty" THEN "top" ELSE "decode",
                          !.cur = Head(unit.queue), !.queue = Tail(unit.queue),
                          !.recvAfter = IF unit.flag THEN @ + 1 ELSE @]
  /\ UnitKeep

(* processing handed off without waiting for the transaction to finish *)
ListenDecodeAsync ==
  /\ unit.phase = "listen" /\ unit.pc = "decode"
  /\ CASE unit.cur = "badjson" ->
            unit' = [unit EXCEPT !.pc = "top",
                       !.outcomes = Append(@, FrameOutcome("badjson", "warning", FALSE))]
       [] unit.cur = "badzlib" ->
            unit' = [unit EXCEPT !.pc = "sleep",
                       !.outcomes = Append(@, FrameOutcome("badzlib", "error", FALSE))]
       [] OTHER ->
            unit' = [unit EXCEPT !.pc = "top", !.open = @ + 1]
  /\ UnitKeep

(* json.loads(zlib.decompress(raw_message)): a JSONDecodeError is logged  *)
(* as a warning and the loop continues; a zlib.error reaches the generic  *)
(* handler (logged as an error with its stack, then time.sleep(1));       *)
(* otherwise process_eddn_message opens its get_db session                *)
ListenDecode ==
  /\ unit.phase = "listen" /\ unit.pc = "decode"
  /\ CASE unit.cur = "badjson" ->
            unit' = [unit EXCEPT !.pc = "top",
                       !.outcomes = Append(@, FrameOutcome("badjson", "warning", FALSE))]
       [] unit.cur = "badzlib" ->
            unit' = [unit EXCEPT !.pc = "sleep",
                       !.outcomes = Append(@, FrameOutcome("badzlib", "error", FALSE))]
       [] OTHER ->
            unit' = [unit EXCEPT !.pc = "process", !.open = @ + 1]
  /\ UnitKeep

(* the body of with get_db(): commit on success; a database exception    *)
(* leaves the with block, whose db.close() rolls the session back, and    *)
(* reaches the generic handler                                            *)
ListenProcess ==
  /\ unit.phase = "listen" /\ unit.pc = "process"
  /\ IF unit.cur = "dberror"
     THEN unit' = [unit EXCEPT !.pc = "sleep", !.open = @ - 1,
                     !.outcomes = Append(@, FrameOutcome("dberror", "error", FALSE))]
     ELSE unit' = [unit EXCEPT !.pc = "top", !.open = @ - 1,
                     !.outcomes = Append(@, FrameOutcome("ok", "none", TRUE))]
  /\ UnitKeep

(* time.sleep(1) in the generic handler, then the loop continues *)
ListenSleep ==
  /\ unit.phase = "listen" /\ unit.pc = "sleep"
  /\ unit' = [unit EXCEPT !.pc = "top", !.outcomes[Len(unit.outcomes)].slept = TRUE]
  /\ UnitKeep

ListenLoop ==
  \/ ListenTop \/ ListenPoll \/ ListenRecv \/ ListenDecode \/ ListenProcess
  \/ ListenSleep

ListenNext == ListenSignal \/ ListenLoop

ListenSpec == ListenInit /\ [][ListenNext]_vars

(* the loop itself never blocks: poll returns within one second *)
ListenLiveSpec == ListenSpec /\ WF_vars(ListenLoop)

(* C22: frames are processed strictly serially: at most one frame        *)
(* transaction is open, and none is open while the loop polls or receives *)
(* the next frame.                                                         *)
C22Serial == unit.open <= 1 /\ (unit.pc \in {"top", "poll", "recv"} => unit.open = 0)

(* reached: a frame committed, and the next one was received *)
C22Witness == unit.pc = "decode" /\ unit.outcomes # <<>> /\ unit.outcomes[1].committed

(* C23 as stated: once shutdown_flag is set, no further frame is received. *)
C23NoFurther == unit.recvAfter = 0

(* C23 amended: after shutdown_flag is set at most one further frame is   *)
(* received (the one whose poll was already under way), and the loop then *)
(* exits with the socket closed, no transaction open and status 0.        *)
C23Drain ==
  /\ [](unit.recvAfter <= 1)
  /\ (unit.flag ~> (unit.pc = "exited" /\ unit.exitCode = 0 /\ ~unit.sockOpen
                    /\ unit.open = 0))

(* reached: a frame was received after the signal, then the loop exited *)
C23Witness == unit.pc = "exited" /\ unit.recvAfter = 1

(* C24: a malformed frame (bad zlib data or invalid JSON) is logged as a  *)
(* warning and dropped; a database failure is rolled back, logged as an   *)
(* error and followed by a sleep; the loop ends only on shutdown_flag.    *)
C24Claim ==
  /\ \A i \in 1..Len(unit.outcomes) :
       LET o == unit.outcomes[i] IN
         /\ o.kind \in {"badzlib", "badjson"} => o.level = "warning" /\ ~o.committed
         /\ o.kind = "dberror" =>
              /\ ~o.committed /\ o.level = "error"
              /\ o.slept \/ (i = Len(unit.outcomes) /\ unit.pc = "sleep")
  /\ unit.pc = "exited" => unit.flag

(* C26: the bubble that yields a hop is one of the integer radii          *)
(* 1, 2, ..., floor(R) LY (radii and R in half-light-years here).        *)
C26Radii == unit.prev # NoPrev => (unit.prev % 2 = 0 /\ unit.prev <= unit.R)

(* the row a session holds for an address after a call: the loaded row,  *)
(* or the object the call added                                           *)
RowAfter(S, a) ==
  IF a \in DOMAIN S.rows THEN S.rows[a]
  ELSE S.pend[CHOOSE i \in 1..Len(S.pend) : S.pend[i].addr = a].row

(* C27: after an accepted system body whose StarPos is missing or not a   *)
(* 3-element list, x, y and z are the sentinel and coords the matching    *)
(* point, even over known coordinates; a 3-element StarPos is stored as   *)
(* given.                                                                  *)
C27Sentinel ==
  (unit.phase = "out" /\ ~unit.body.route /\ unit.res.ok) =>
    LET r == RowAfter(unit.res.s, unit.body.addr)
        p == unit.body.pos
    IN IF p # <<>> /\ Len(p) = 3
       THEN r.x = p[1] /\ r.y = p[2] /\ r.z = p[3] /\ r.coords = p
       ELSE r.x = Sentinel /\ r.y = Sentinel /\ r.z = Sentinel
            /\ r.coords = <<Sentinel, Sentinel, Sentinel>>

(* reached: a 2-element StarPos over a row with known coordinates *)
C27Witness ==
  /\ unit.phase = "out" /\ ~unit.body.route /\ unit.res.ok
  /\ unit.body.pos = P2D /\ unit.body.addr \in DOMAIN unit.S.rows
  /\ unit.S.rows[unit.body.addr].x # Sentinel

----------------------------------------------------------------------------
(* Two ingester transactions for frames about the same system_address,   *)
(* each running parse_and_update_system and then db.commit() under       *)
(* PostgreSQL's default read committed isolation.  A read sees the last  *)
(* committed row; the row lock and the unique index order the two        *)
(* flush-and-commit steps.                                                *)
Txns == {1, 2}
MaxConcTs == 3
NoRow == 0

ConcInit ==
  /\ UnitFrame
  /\ \E r \in {NoRow} \cup 1..MaxConcTs, t \in [Txns -> 1..MaxConcTs] :
        unit = [phase |-> "conc", row |-> r, ts |-> t,
                pc |-> [i \in Txns |-> "check"], kind |-> [i \in Txns |-> "none"],
                committed |-> {}, overlap |-> FALSE]

(* the other transaction is between its first read and its commit *)
OtherMid(i) == \E j \in Txns \ {i} : unit.pc[j] \in {"lookup", "commit"}

(* the first get_system_by_address with no check of freshness *)
ConcCheckNoCheck(i) ==
  /\ unit.phase = "conc" /\ unit.pc[i] = "check"
  /\ unit' = [unit EXCEPT !.pc[i] = "lookup", !.overlap = @ \/ OtherMid(i)]
  /\ UnitKeep

(* parse_and_update_system's get_system_by_address, then return False    *)
(* (no commit) when the stored updated_at >= the frame's timestamp        *)
ConcCheck(i) ==
  /\ unit.phase = "conc" /\ unit.pc[i] = "check"
  /\ IF unit.row # NoRow /\ unit.row >= unit.ts[i]
     THEN unit' = [unit EXCEPT !.pc[i] = "done"]
     ELSE unit' = [unit EXCEPT !.pc[i] = "lookup", !.overlap = @ \/ OtherMid(i)]
  /\ UnitKeep

(* create_or_update_system's own get_system_by_address: it reads the row *)
(* committed by now and chooses between updating it and adding a new one *)
ConcLookup(i) ==
  /\ unit.phase = "conc" /\ unit.pc[i] = "lookup"
  /\ unit' = [unit EXCEPT
                !.pc[i] = "commit",
                !.kind[i] = IF unit.row = NoRow THEN "insert" ELSE "update",
                !.overlap = @ \/ OtherMid(i)]
  /\ UnitKeep

(* db.commit(): the UPDATE of create_or_update_system overwrites          *)
(* unconditionally; an INSERT after the other transaction committed its  *)
(* own raises IntegrityError and the transaction rolls back               *)
ConcCommit(i) ==
  /\ unit.phase = "conc" /\ unit.pc[i] = "commit"
  /\ IF unit.kind[i] = "insert" /\ unit.row # NoRow
     THEN unit' = [unit EXCEPT !.pc[i] = "failed"]
     ELSE unit' = [unit EXCEPT !.pc[i] = "done", !.row = unit.ts[i],
                               !.committed = @ \cup {i}]
  /\ UnitKeep

ConcNext == \E i \in Txns : ConcCheck(i) \/ ConcLookup(i) \/ ConcCommit(i)

ConcSpec == ConcInit /\ [][ConcNext]_vars

ConcFinished == \A i \in Txns : unit.pc[i] \in {"done", "failed"}
NewestCommitted == CHOOSE t \in {unit.ts[i] : i \in unit.committed} :
                     \A i \in unit.committed : unit.ts[i] <= t

(* C28 as stated: in no interleaving does the committed row end with an *)
(* updated_at older than the newest committed frame's timestamp.        *)
C28NoLostUpdate ==
  (ConcFinished /\ unit.committed # {}) => unit.row >= NewestCommitted

(* C28 amended: when the two transactions do not overlap (one commits    *)
(* before the other reads) the row ends with the newest timestamp; when  *)
(* they overlap, the later commit can overwrite a newer timestamp.       *)
C28Serial ==
  (ConcFinished /\ unit.committed # {} /\ ~unit.overlap) => unit.row >= NewestCommitted

(* reached: two serial commits for the same system *)
C28Witness == ConcFinished /\ ~unit.overlap /\ unit.committed = Txns

(* a frame that names one key twice: a NavRoute system_address or a      *)
(* commodity name                                                          *)
DupKey(m) ==
  \/ /\ m.body.route
     /\ \E i, j \in 1..Len(m.body.items) :
          i # j /\ m.body.items[i].addr = m.body.items[j].addr
          /\ m.body.items[i].addr # NoAddr
  \/ /\ m.schema = COMMODITY_SCHEMA_REF
     /\ \E i, j \in 1..Len(m.body.coms) :
          i # j /\ m.body.coms[i].name = m.body.coms[j].name
          /\ m.body.coms[i].name # NoName

(* C29: a frame that mentions the same key twice is still processed       *)
(* without raising: its transaction is not discarded by a constraint or   *)
(* ON CONFLICT error.                                                     *)
C29NoRaise == (step # "init" /\ DupKey(lastMsg)) => ~out.raised

(* the frame just handled was an accepted commodity frame for market mk *)
AcceptedFor(mk) ==
  out'.acc /\ out'.handler = "commodity" /\ lastMsg'.body.market = mk

(* C30: every StationCommodity row is no newer than its Station; an       *)
(* accepted snapshot gives every commodity it names a row stamped with    *)
(* the Station's new updated_at; rows are never deleted, and a station's  *)
(* rows and updated_at change only with an accepted frame for it, so rows *)
(* omitted from later snapshots keep their older updated_at.              *)
C30Snapshot ==
  /\ [](\A k \in DOMAIN db.listings :
          k[1] \in DOMAIN db.stations
          /\ db.listings[k].updated_at <= db.stations[k[1]].updated_at)
  /\ [][ step' # "init" =>
         /\ DOMAIN db.listings \subseteq DOMAIN db'.listings
         /\ \A k \in DOMAIN db.listings :
              db'.listings[k] # db.listings[k] => AcceptedFor(k[1])
         /\ \A m \in DOMAIN db.stations :
              db'.stations[m].updated_at # db.stations[m].updated_at => AcceptedFor(m)
         /\ (out'.acc /\ out'.handler = "commodity") =>
              LET mk == lastMsg'.body.market IN
              \A n \in FrameNames(lastMsg') :
                 \E k \in DOMAIN db'.listings :
                    /\ k[1] = mk /\ db'.commodities[k[2]] = n
                    /\ db'.listings[k].updated_at = db'.stations[mk].updated_at ]_vars

(* reached: one station holds a row from its latest snapshot and an older *)
(* row its latest snapshot omitted                                        *)
C30Witness ==
  \E k1, k2 \in DOMAIN db.listings :
     /\ k1[1] = k2[1]
     /\ db.listings[k1].updated_at = db.stations[k1[1]].updated_at
     /\ db.listings[k2].updated_at < db.stations[k2[1]].updated_at

----------------------------------------------------------------------------
(* run_import of manual_systems_update: the record loop, the --limit     *)
(* break, the full-batch flush, the final batch and dry-run mode, with    *)
(* the signal handler able to run between any two steps.  Records are     *)
(* named by their position in the file; a record is either complete or    *)
(* skipped.  A flush's bulk_upsert_systems or db.commit() may raise (a     *)
(* database error); the except Exception branch then rolls back and       *)
(* run_import returns.                                                     *)
LoadBatch == 2
MaxRecords == 3
RecordKinds == {"valid", "invalid"}
(* --limit N; 0 stands for no limit (args.limit is falsy) *)
LoadLimits == {0, 1, 2}

LoaderInit ==
  /\ UnitFrame
  /\ \E f \in UNION {[1..n -> RecordKinds] : n \in 0..MaxRecords}, d \in BOOLEAN,
        lim \in LoadLimits :
        unit = [phase |-> "load", pc |-> "loop", flag |-> FALSE, dry |-> d,
                limit |-> lim, file |-> f, pos |-> 1, batch |-> <<>>,
                taken |-> {}, committed |-> {}, commits |-> <<>>,
                rollbacks |-> 0]

BatchSet(b) == {b[i] : i \in 1..Len(b)}

(* signal_handler: sets shutdown_flag once; it stays installed for the   *)
(* whole process, so it can also run between a step of run_import and    *)
(* its return (pc "done" then covers the rest of main)                    *)
LoaderSignal ==
  /\ unit.phase = "load" /\ ~unit.flag
  /\ unit' = [unit EXCEPT !.flag = TRUE]
  /\ UnitKeep

(* a flush of batch b: bulk_upsert_systems then db.commit(), or, when one  *)
(* of them raises, db.rollback() in the except branch and return          *)
Flush(u, b, raises) ==
  IF raises
  THEN [u EXCEPT !.pc = "done", !.batch = b, !.rollbacks = @ + 1]
  ELSE [u EXCEPT !.batch = <<>>, !.committed = @ \cup BatchSet(b),
                 !.commits = Append(@, Len(b))]

(* one turn of for record in records: break on shutdown_flag or on the    *)
(* record limit (processed_count = pos - 1), skip an incomplete record,   *)
(* append a complete one; a full batch is flushed next (in dry-run,       *)
(* return at once)                                                         *)
LoaderStep ==
  /\ unit.phase = "load" /\ unit.pc = "loop"
  /\ IF unit.pos > Len(unit.file) \/ unit.flag
        \/ (unit.limit # 0 /\ unit.pos - 1 >= unit.limit)
     THEN unit' = [unit EXCEPT !.pc = "final"]
     ELSE IF unit.file[unit.pos] = "invalid"
     THEN unit' = [unit EXCEPT !.pos = @ + 1]
     ELSE LET b == Append(unit.batch, unit.pos)
              u == [unit EXCEPT !.pos = @ + 1, !.taken = @ \cup {unit.pos},
                                !.batch = b]
          IN IF Len(b) >= LoadBatch
             THEN unit' = [u EXCEPT !.pc = IF unit.dry THEN "done" ELSE "flush"]
             ELSE unit' = u
  /\ UnitKeep

(* if systems_batch and not shutdown_flag: flush the final batch (counted *)
(* only in dry-run); then main's dry-run rollback                          *)
LoaderFinal ==
  /\ unit.phase = "load" /\ unit.pc = "final"
  /\ unit' = [unit EXCEPT !.pc =
                IF unit.batch # <<>> /\ ~unit.flag /\ ~unit.dry
                THEN "lastflush" ELSE "done"]
  /\ UnitKeep

(* the flush of a full batch (back to the loop) or of the final batch    *)
(* (run_import then returns); the signal handler can run before it ends  *)
LoaderFlush ==
  /\ unit.phase = "load" /\ unit.pc \in {"flush", "lastflush"}
  /\ \E raises \in BOOLEAN :
       LET f == Flush(unit, unit.batch, raises)
       IN unit' = IF raises THEN f
                  ELSE [f EXCEPT !.pc = IF unit.pc = "flush" THEN "loop" ELSE "done"]
  /\ UnitKeep

LoaderNext == LoaderSignal \/ LoaderStep \/ LoaderFinal \/ LoaderFlush

LoaderSpec == LoaderInit /\ [][LoaderNext]_vars

(* C25: every flushed batch but the last is a full batch; when run_import *)
(* ends without a database error, every complete record it took is        *)
(* committed (on a shutdown signal the current batch is drained first);   *)
(* in dry-run nothing is committed.                                       *)
C25Drain ==
  /\ \A i \in 1..Len(unit.commits) - 1 : unit.commits[i] = LoadBatch
  /\ \A i \in 1..Len(unit.commits) : unit.commits[i] <= LoadBatch
  /\ (unit.pc = "done" /\ unit.rollbacks = 0) =>
       IF unit.dry THEN unit.committed = {} ELSE unit.committed = unit.taken

====
